---- MODULE Spec2Model ----
(***************************************************************************)
(* Model of the tag normalisation / denormalisation engine of tagpilot-lib *)
(* (src/src/util.rs): AudioTags::from_tag, AudioTags::to_tag and           *)
(* add_cover_image acting on a lofty Tag.                                  *)
(*                                                                         *)
(* Encoding.  A Rust Option<T> is a sequence of length at most one:        *)
(* None is << >> and Some(x) is << x >>.  A Rust String that the code      *)
(* inspects character by character (item values, list elements) is a       *)
(* sequence of one-character strings; MIME strings and descriptions, which *)
(* the code only copies and compares, are TLA+ strings.  A Vec<u8> is a    *)
(* sequence of numbers in 0..255.                                          *)
(*                                                                         *)
(* The lofty Tag is modelled as the ordered list of its items and the      *)
(* ordered list of its pictures, for a tag type that maps every ItemKey    *)
(* the code uses (the tests use TagType::Id3v2 throughout).                *)
(***************************************************************************)
EXTENDS Integers, Sequences, FiniteSets, TLC

None == << >>
Some(x) == << x >>
IsSome(o) == Len(o) = 1
Unwrap(o) == o[1]

(***************************************************************************)
(* Strings and numbers                                                     *)
(***************************************************************************)
RECURSIVE SeqConcat(_)
\* concatenation of a sequence of sequences
SeqConcat(ss) == IF ss = << >> THEN << >> ELSE Head(ss) \o SeqConcat(Tail(ss))

Digits == <<"0", "1", "2", "3", "4", "5", "6", "7", "8", "9">>
IsDigit(c) == \E i \in 1..10 : Digits[i] = c
DigitVal(c) == (CHOOSE i \in 1..10 : Digits[i] = c) - 1
IsWhitespace(c) == c = " "

RECURSIVE u32_to_string(_)
\* u32::to_string: the decimal digits, most significant first
u32_to_string(n) ==
  IF n < 10 THEN << Digits[n + 1] >>
  ELSE Append(u32_to_string(n \div 10), Digits[(n % 10) + 1])

RECURSIVE DigitsValue(_, _)
DigitsValue(s, acc) ==
  IF s = << >> THEN acc ELSE DigitsValue(Tail(s), acc * 10 + DigitVal(Head(s)))

\* the digits of u32::MAX, 4294967295
U32MaxDigits == <<"4", "2", "9", "4", "9", "6", "7", "2", "9", "5">>

RECURSIVE StripZeros(_)
StripZeros(s) == IF Len(s) > 1 /\ Head(s) = "0" THEN StripZeros(Tail(s)) ELSE s

RECURSIVE DigitsGreater(_, _)
\* for digit strings of equal length: s denotes a greater number than t
DigitsGreater(s, t) ==
  IF s = << >> THEN FALSE
  ELSE IF DigitVal(Head(s)) # DigitVal(Head(t)) THEN DigitVal(Head(s)) > DigitVal(Head(t))
  ELSE DigitsGreater(Tail(s), Tail(t))

\* the digit string denotes a number above u32::MAX
OverflowsU32(s) ==
  LET z == StripZeros(s)
  IN Len(z) > 10 \/ (Len(z) = 10 /\ DigitsGreater(z, U32MaxDigits))

\* str::parse::<u32>: an optional leading "+", then one or more decimal
\* digits, and the value must fit 32 bits; anything else is an error (None)
parse_u32(s) ==
  LET body == IF s # << >> /\ Head(s) = "+" THEN Tail(s) ELSE s
  IN IF body = << >> \/ \E i \in 1..Len(body) : ~IsDigit(body[i]) THEN None
     ELSE IF OverflowsU32(body) THEN None
     ELSE Some(DigitsValue(body, 0))

RECURSIVE SkipWhitespace(_)
SkipWhitespace(s) ==
  IF s # << >> /\ IsWhitespace(Head(s)) THEN SkipWhitespace(Tail(s)) ELSE s

RECURSIVE TakeDigits(_)
TakeDigits(s) ==
  IF s # << >> /\ IsDigit(Head(s)) THEN << Head(s) >> \o TakeDigits(Tail(s)) ELSE << >>

\* str::trim: drop leading and trailing whitespace
RECURSIVE TrimEnd(_)
TrimEnd(s) ==
  IF s # << >> /\ IsWhitespace(s[Len(s)]) THEN TrimEnd(SubSeq(s, 1, Len(s) - 1)) ELSE s
trim(s) == TrimEnd(SkipWhitespace(s))

RECURSIVE SplitAcc(_, _, _)
SplitAcc(s, sep, cur) ==
  IF s = << >> THEN << cur >>
  ELSE IF Head(s) = sep THEN << cur >> \o SplitAcc(Tail(s), sep, << >>)
  ELSE SplitAcc(Tail(s), sep, Append(cur, Head(s)))
\* str::split(sep) for a one-character separator: never empty, "" gives [""]
split(s, sep) == SplitAcc(s, sep, << >>)

RECURSIVE join(_, _)
\* [String]::join(sep): the elements with sep between neighbours
join(list, sep) ==
  IF list = << >> THEN << >>
  ELSE IF Len(list) = 1 THEN list[1]
  ELSE list[1] \o sep \o join(Tail(list), sep)

CommaSpace == <<",", " ">>

(***************************************************************************)
(* Picture roles, MIME types and content sniffing                          *)
(***************************************************************************)
\* the role names AudioImageType and lofty's PictureType have in common
NamedRoles ==
  {"Icon", "OtherIcon", "CoverFront", "CoverBack", "Leaflet", "Media",
   "LeadArtist", "Artist", "Conductor", "Band", "Composer", "Lyricist",
   "RecordingLocation", "DuringRecording", "DuringPerformance",
   "ScreenCapture", "BrightFish", "Illustration", "BandLogo", "PublisherLogo"}

\* enum AudioImageType
AudioImageType == NamedRoles \cup {"Other"}

\* lofty::picture::PictureType; "Undefined" stands for PictureType::Undefined(_)
PictureType == NamedRoles \cup {"Other", "Undefined"}

\* from_picture_type without the PublisherLogo arm
from_picture_type_missing_arm(picture_type) ==
  IF picture_type \in NamedRoles \ {"PublisherLogo"} THEN picture_type ELSE "Other"

\* AudioImageType::from_picture_type
from_picture_type(picture_type) ==
  CASE picture_type = "Icon" -> "Icon"
    [] picture_type = "OtherIcon" -> "OtherIcon"
    [] picture_type = "CoverFront" -> "CoverFront"
    [] picture_type = "CoverBack" -> "CoverBack"
    [] picture_type = "Leaflet" -> "Leaflet"
    [] picture_type = "Media" -> "Media"
    [] picture_type = "LeadArtist" -> "LeadArtist"
    [] picture_type = "Artist" -> "Artist"
    [] picture_type = "Conductor" -> "Conductor"
    [] picture_type = "Band" -> "Band"
    [] picture_type = "Composer" -> "Composer"
    [] picture_type = "Lyricist" -> "Lyricist"
    [] picture_type = "RecordingLocation" -> "RecordingLocation"
    [] picture_type = "DuringRecording" -> "DuringRecording"
    [] picture_type = "DuringPerformance" -> "DuringPerformance"
    [] picture_type = "ScreenCapture" -> "ScreenCapture"
    [] picture_type = "BrightFish" -> "BrightFish"
    [] picture_type = "Illustration" -> "Illustration"
    [] picture_type = "BandLogo" -> "BandLogo"
    [] picture_type = "PublisherLogo" -> "PublisherLogo"
    [] OTHER -> "Other"

\* build_picture_type with the BandLogo arm giving PublisherLogo
build_picture_type_swapped_arm(self) ==
  IF self = "BandLogo" THEN "PublisherLogo"
  ELSE IF self \in NamedRoles THEN self ELSE "Other"

\* AudioImageType::build_picture_type
build_picture_type(self) ==
  CASE self = "Icon" -> "Icon"
    [] self = "OtherIcon" -> "OtherIcon"
    [] self = "CoverFront" -> "CoverFront"
    [] self = "CoverBack" -> "CoverBack"
    [] self = "Leaflet" -> "Leaflet"
    [] self = "Media" -> "Media"
    [] self = "LeadArtist" -> "LeadArtist"
    [] self = "Artist" -> "Artist"
    [] self = "Conductor" -> "Conductor"
    [] self = "Band" -> "Band"
    [] self = "Composer" -> "Composer"
    [] self = "Lyricist" -> "Lyricist"
    [] self = "RecordingLocation" -> "RecordingLocation"
    [] self = "DuringRecording" -> "DuringRecording"
    [] self = "DuringPerformance" -> "DuringPerformance"
    [] self = "ScreenCapture" -> "ScreenCapture"
    [] self = "BrightFish" -> "BrightFish"
    [] self = "Illustration" -> "Illustration"
    [] self = "BandLogo" -> "BandLogo"
    [] self = "PublisherLogo" -> "PublisherLogo"
    [] OTHER -> "Other"

\* lofty::picture::MimeType: five named kinds and Unknown(String)
Mime(kind) == [kind |-> kind, raw |-> ""]
MimeUnknown(s) == [kind |-> "Unknown", raw |-> s]

\* MimeType::from_str, as called at util.rs:151, 331 and 344
MimeType_from_str(s) ==
  CASE s = "image/jpeg" \/ s = "image/jpg" -> Mime("Jpeg")
    [] s = "image/png" -> Mime("Png")
    [] s = "image/tiff" -> Mime("Tiff")
    [] s = "image/bmp" -> Mime("Bmp")
    [] s = "image/gif" -> Mime("Gif")
    [] OTHER -> MimeUnknown(s)

\* MimeType's Display, used by mime_type.to_string() in Image::from_picture
MimeType_to_string(m) ==
  CASE m.kind = "Jpeg" -> "image/jpeg"
    [] m.kind = "Png" -> "image/png"
    [] m.kind = "Tiff" -> "image/tiff"
    [] m.kind = "Bmp" -> "image/bmp"
    [] m.kind = "Gif" -> "image/gif"
    [] OTHER -> m.raw

HasPrefix(buf, pre) == Len(buf) >= Len(pre) /\ SubSeq(buf, 1, Len(pre)) = pre

\* infer::get(&buf): the kind's MIME string recognised from the leading
\* bytes, or None.  Four of infer's signatures are modelled: three image
\* kinds and one kind that is not an image.
infer_get(buf) ==
  CASE HasPrefix(buf, <<255, 216, 255>>) -> Some("image/jpeg")
    [] HasPrefix(buf, <<137, 80, 78, 71>>) -> Some("image/png")
    [] HasPrefix(buf, <<71, 73, 70>>) -> Some("image/gif")
    [] HasPrefix(buf, <<37, 80, 68, 70>>) -> Some("application/pdf")
    [] OTHER -> None

\* Picture::new_unchecked(pic_type, mime_type, description, data)
Picture_new_unchecked(pic_type, mime_type, description, data) ==
  [pic_type |-> pic_type, mime_type |-> mime_type,
   description |-> description, data |-> data]

\* Image::from_picture
from_picture(picture) ==
  [data |-> picture.data,
   pic_type |-> from_picture_type(picture.pic_type),
   mime_type |-> IF IsSome(picture.mime_type)
                 THEN Some(MimeType_to_string(Unwrap(picture.mime_type)))
                 ELSE None,
   description |-> picture.description]

(***************************************************************************)
(* The lofty Tag: items and pictures                                       *)
(***************************************************************************)
ItemKeys ==
  {"TrackTitle", "TrackArtist", "TrackArtists", "AlbumTitle", "Year",
   "RecordingDate", "Genre", "TrackNumber", "TrackTotal", "DiscNumber",
   "DiscTotal", "AlbumArtist", "Comment"}

\* ItemValue::Text(s) and a value that is not text (ItemValue::Binary)
Text(s) == [kind |-> "Text", text |-> s]
Binary == [kind |-> "Binary", text |-> << >>]

\* TagItem::new(key, value)
TagItem(key, value) == [key |-> key, value |-> value]

\* Tag::new(tag_type): no items, no pictures
Tag_new == [items |-> << >>, pictures |-> << >>]

\* Tag::remove_key: drop every item stored under the key
remove_key(tag, key) ==
  [tag EXCEPT !.items = SelectSeq(@, LAMBDA it : it.key # key)]

\* Tag::push: append the item, keeping the items already under its key
push(tag, item) == [tag EXCEPT !.items = Append(@, item)]

\* Tag::insert_text: replace the items under the key by one text item
insert_text(tag, key, s) == push(remove_key(tag, key), TagItem(key, Text(s)))

\* Tag::get_items: the items under the key, in tag order
get_items(tag, key) == SelectSeq(tag.items, LAMBDA it : it.key = key)

\* Tag::get_string: the text of the first item under the key, if it is text
get_string(tag, key) ==
  LET its == get_items(tag, key)
  IN IF its # << >> /\ its[1].value.kind = "Text" THEN Some(its[1].value.text)
     ELSE None

\* Tag's numeric accessors (track, track_total, disk, disk_total)
get_u32_from_string(tag, key) ==
  LET s == get_string(tag, key)
  IN IF IsSome(s) THEN parse_u32(Unwrap(s)) ELSE None

\* lofty's year parser: skip leading whitespace, then read at most four
\* decimal digits; no digit gives None
try_parse_year(s) ==
  LET ds == TakeDigits(SkipWhitespace(s))
      four == SubSeq(ds, 1, IF Len(ds) < 4 THEN Len(ds) ELSE 4)
  IN IF four = << >> THEN None ELSE Some(DigitsValue(four, 0))

\* Accessor::year for Tag: the Year item, else the RecordingDate item
Tag_year(tag) ==
  LET y == get_string(tag, "Year")
      s == IF IsSome(y) THEN y ELSE get_string(tag, "RecordingDate")
  IN IF IsSome(s) THEN try_parse_year(Unwrap(s)) ELSE None

\* Tag::remove_picture(i) for a 0-based index i: the tag without it
remove_picture(tag, i) ==
  [tag EXCEPT !.pictures = SubSeq(@, 1, i) \o SubSeq(@, i + 2, Len(@))]

\* Tag::push_picture
push_picture(tag, picture) == [tag EXCEPT !.pictures = Append(@, picture)]

(***************************************************************************)
(* Cover/picture manager                                                   *)
(***************************************************************************)
\* the sort key of both sort_by_key calls: cover-front 0, every other role 1
CoverKey(image) == IF image.pic_type = "CoverFront" THEN 0 ELSE 1

RECURSIVE InsertByKey(_, _)
\* place x behind every element whose key is not greater than its own
InsertByKey(sorted, x) ==
  IF sorted = << >> THEN << x >>
  ELSE IF CoverKey(Head(sorted)) <= CoverKey(x)
       THEN << Head(sorted) >> \o InsertByKey(Tail(sorted), x)
       ELSE << x >> \o sorted

RECURSIVE SortFrom(_, _)
SortFrom(rest, sorted) ==
  IF rest = << >> THEN sorted ELSE SortFrom(Tail(rest), InsertByKey(sorted, Head(rest)))

\* sort_by_key left out: the list in its given order
sort_by_key_none(images) == images

\* sort_by_key by an unstable sort: equal keys come out in reverse order
sort_by_key_unstable(images) ==
  LET rev(seq) == [i \in 1..Len(seq) |-> seq[Len(seq) + 1 - i]]
      c == SelectSeq(images, LAMBDA im : CoverKey(im) = 0)
      n == SelectSeq(images, LAMBDA im : CoverKey(im) = 1)
  IN rev(c) \o rev(n)

\* sort_by_key with a key that ranks every role: cover-front, then
\* cover-back, then the rest
sort_by_key_by_role(images) ==
  SelectSeq(images, LAMBDA im : im.pic_type = "CoverFront")
    \o SelectSeq(images, LAMBDA im : im.pic_type = "CoverBack")
    \o SelectSeq(images, LAMBDA im : im.pic_type \notin {"CoverFront", "CoverBack"})

\* Vec::sort_by_key with CoverKey: a stable sort
sort_by_key(images) == SortFrom(images, << >>)

RECURSIVE DrainLoop(_, _, _)
\* add_cover_image, the loop "for i in (0..len).rev()": remove picture i and
\* keep it on the stack unless it is a cover-front picture
DrainLoop(tag, i, stack) ==
  IF i < 0 THEN [tag |-> tag, stack |-> stack]
  ELSE LET current_picture == tag.pictures[i + 1]
       IN DrainLoop(remove_picture(tag, i), i - 1,
                    IF current_picture.pic_type # "CoverFront"
                    THEN Append(stack, current_picture) ELSE stack)

RECURSIVE PopLoop(_, _)
\* add_cover_image, the loop "while let Some(picture) = pictures_stack.pop()"
PopLoop(tag, stack) ==
  IF stack = << >> THEN tag
  ELSE PopLoop(push_picture(tag, stack[Len(stack)]), SubSeq(stack, 1, Len(stack) - 1))

\* the MIME type add_cover_image stores: the sniffed kind, else the default
cover_mime_type(buf, default_mime_type) ==
  LET kind == infer_get(buf)
  IN IF IsSome(kind) THEN MimeType_from_str(Unwrap(kind)) ELSE default_mime_type

\* add_cover_image removing the cover-front pictures and pushing the new one last
add_cover_image_append(primary_tag, image_data, image_description, default_mime_type) ==
  LET kept == SelectSeq(primary_tag.pictures, LAMBDA p : p.pic_type # "CoverFront")
  IN [primary_tag EXCEPT !.pictures =
        Append(kept, Picture_new_unchecked(
                       "CoverFront",
                       Some(cover_mime_type(image_data, default_mime_type)),
                       image_description, image_data))]

\* add_cover_image putting the new picture first without removing any
add_cover_image_no_remove(primary_tag, image_data, image_description, default_mime_type) ==
  [primary_tag EXCEPT !.pictures =
     << Picture_new_unchecked("CoverFront",
                              Some(cover_mime_type(image_data, default_mime_type)),
                              image_description, image_data) >> \o @]

\* fn add_cover_image(primary_tag, image_data, image_description, default_mime_type)
add_cover_image(primary_tag, image_data, image_description, default_mime_type) ==
  LET mime_type == cover_mime_type(image_data, default_mime_type)
      drained == DrainLoop(primary_tag, Len(primary_tag.pictures) - 1, << >>)
      pictures_stack ==
        Append(drained.stack,
               Picture_new_unchecked("CoverFront", Some(mime_type),
                                     image_description, image_data))
  IN PopLoop(drained.tag, pictures_stack)

(***************************************************************************)
(* Normalizer: AudioTags::from_tag                                         *)
(***************************************************************************)
\* iter().map(F).collect()
MapSeq(seq, F(_)) == [i \in 1..Len(seq) |-> F(seq[i])]

\* the text of an item, "" when the value is not text
item_text(item) == IF item.value.kind = "Text" THEN item.value.text ELSE << >>

\* get_values_from_item without value.trim()
get_values_from_item_no_trim(tag, item_key) ==
  LET items == get_items(tag, item_key)
      values_of(item) == split(item_text(item), ",")
  IN SeqConcat(MapSeq(items, values_of))

\* fn get_values_from_item(tag, item_key)
get_values_from_item(tag, item_key) ==
  LET items == get_items(tag, item_key)
      values_of(item) == MapSeq(split(item_text(item), ","), trim)
  IN SeqConcat(MapSeq(items, values_of))

\* position_of that builds a Position only when the number is present
position_of_number_only(no, of) ==
  IF no = None THEN None ELSE Some([no |-> no, of |-> of])

\* the Position built from a number accessor and a total accessor
position_of(no, of) ==
  IF no = None /\ of = None THEN None ELSE Some([no |-> no, of |-> of])

\* first_cover without the role test: the first image whatever its role
first_cover_any(all_images) ==
  IF all_images # << >> THEN Some(all_images[1]) ELSE None

\* from_tag: the cover image picked from the sorted list
first_cover(all_images) ==
  IF all_images # << >> /\ all_images[1].pic_type = "CoverFront"
  THEN Some(all_images[1]) ELSE None

\* AudioTags::from_tag
from_tag(tag) ==
  LET artists_values == get_values_from_item(tag, "TrackArtists")
      album_artists_values == get_values_from_item(tag, "AlbumArtist")
      all_images == sort_by_key(MapSeq(tag.pictures, from_picture))
      image == first_cover(all_images)
  IN [title |-> get_string(tag, "TrackTitle"),
      artists |-> Some(artists_values),
      album |-> get_string(tag, "AlbumTitle"),
      year |-> Tag_year(tag),
      genre |-> get_string(tag, "Genre"),
      track |-> position_of(get_u32_from_string(tag, "TrackNumber"),
                            get_u32_from_string(tag, "TrackTotal")),
      album_artists |-> Some(album_artists_values),
      comment |-> get_string(tag, "Comment"),
      disc |-> position_of(get_u32_from_string(tag, "DiscNumber"),
                           get_u32_from_string(tag, "DiscTotal")),
      image |-> image,
      all_images |-> IF all_images = << >> THEN None ELSE Some(all_images)]

\* AudioTags::default()
AudioTags_default ==
  [title |-> None, artists |-> None, album |-> None, year |-> None,
   genre |-> None, track |-> None, album_artists |-> None, comment |-> None,
   disc |-> None, image |-> None, all_images |-> None]

(***************************************************************************)
(* Denormalizer: AudioTags::to_tag, one operator per block of the method   *)
(***************************************************************************)
\* to_tag_title with remove_key outside the presence test
to_tag_title_always_remove(self, tag) ==
  IF IsSome(self.title)
  THEN insert_text(remove_key(tag, "TrackTitle"), "TrackTitle", Unwrap(self.title))
  ELSE remove_key(tag, "TrackTitle")

\* self.title
to_tag_title(self, tag) ==
  IF IsSome(self.title)
  THEN insert_text(remove_key(tag, "TrackTitle"), "TrackTitle", Unwrap(self.title))
  ELSE tag

\* to_tag_artists without the two remove_key calls
to_tag_artists_push_only(self, tag) ==
  IF IsSome(self.artists) /\ Unwrap(self.artists) # << >>
  THEN LET artists == Unwrap(self.artists)
       IN push(push(tag, TagItem("TrackArtist", Text(artists[1]))),
               TagItem("TrackArtists", Text(join(artists, CommaSpace))))
  ELSE tag

\* to_tag_artists that removes the artist items before the emptiness test
to_tag_artists_clear_on_empty(self, tag) ==
  IF IsSome(self.artists)
  THEN LET artists == Unwrap(self.artists)
           removed == remove_key(remove_key(tag, "TrackArtist"), "TrackArtists")
       IN IF artists # << >>
          THEN push(push(removed, TagItem("TrackArtist", Text(artists[1]))),
                    TagItem("TrackArtists", Text(join(artists, CommaSpace))))
          ELSE removed
  ELSE tag

\* self.artists: the singular item and the joined multi-value item
to_tag_artists(self, tag) ==
  IF IsSome(self.artists) /\ Unwrap(self.artists) # << >>
  THEN LET artists == Unwrap(self.artists)
           removed == remove_key(remove_key(tag, "TrackArtist"), "TrackArtists")
           artist_value == artists[1]
       IN push(push(removed, TagItem("TrackArtist", Text(artist_value))),
               TagItem("TrackArtists", Text(join(artists, CommaSpace))))
  ELSE tag

\* self.album
to_tag_album(self, tag) ==
  IF IsSome(self.album)
  THEN insert_text(remove_key(tag, "AlbumTitle"), "AlbumTitle", Unwrap(self.album))
  ELSE tag

\* self.year: the Year item and the RecordingDate item
to_tag_year(self, tag) ==
  IF IsSome(self.year)
  THEN LET year == u32_to_string(Unwrap(self.year))
           removed == remove_key(remove_key(tag, "Year"), "RecordingDate")
       IN insert_text(insert_text(removed, "Year", year), "RecordingDate", year)
  ELSE tag

\* self.genre
to_tag_genre(self, tag) ==
  IF IsSome(self.genre)
  THEN insert_text(remove_key(tag, "Genre"), "Genre", Unwrap(self.genre))
  ELSE tag

\* to_tag_position writing the total under the number key
to_tag_position_one_key(position, tag, no_key, of_key) ==
  IF IsSome(position)
  THEN LET pos == Unwrap(position)
           t1 == IF IsSome(pos.no)
                 THEN insert_text(remove_key(tag, no_key), no_key,
                                  u32_to_string(Unwrap(pos.no)))
                 ELSE tag
       IN IF IsSome(pos.of)
          THEN insert_text(remove_key(t1, no_key), no_key,
                           u32_to_string(Unwrap(pos.of)))
          ELSE t1
  ELSE tag

\* to_tag_position that clears the item of a member that is None
to_tag_position_clearing(position, tag, no_key, of_key) ==
  IF IsSome(position)
  THEN LET pos == Unwrap(position)
           t0 == remove_key(tag, no_key)
           t1 == IF IsSome(pos.no)
                 THEN insert_text(t0, no_key, u32_to_string(Unwrap(pos.no)))
                 ELSE t0
           t2 == remove_key(t1, of_key)
       IN IF IsSome(pos.of)
          THEN insert_text(t2, of_key, u32_to_string(Unwrap(pos.of)))
          ELSE t2
  ELSE tag

\* a Position written member by member under a number key and a total key
to_tag_position(position, tag, no_key, of_key) ==
  IF IsSome(position)
  THEN LET pos == Unwrap(position)
           t1 == IF IsSome(pos.no)
                 THEN insert_text(remove_key(tag, no_key), no_key,
                                  u32_to_string(Unwrap(pos.no)))
                 ELSE tag
       IN IF IsSome(pos.of)
          THEN insert_text(remove_key(t1, of_key), of_key,
                           u32_to_string(Unwrap(pos.of)))
          ELSE t1
  ELSE tag

\* self.track
to_tag_track(self, tag) == to_tag_position(self.track, tag, "TrackNumber", "TrackTotal")

\* self.disc
to_tag_disc(self, tag) == to_tag_position(self.disc, tag, "DiscNumber", "DiscTotal")

\* self.album_artists: the joined multi-value item only
to_tag_album_artists(self, tag) ==
  IF IsSome(self.album_artists) /\ Unwrap(self.album_artists) # << >>
  THEN push(remove_key(tag, "AlbumArtist"),
            TagItem("AlbumArtist", Text(join(Unwrap(self.album_artists), CommaSpace))))
  ELSE tag

\* self.comment
to_tag_comment(self, tag) ==
  IF IsSome(self.comment)
  THEN insert_text(remove_key(tag, "Comment"), "Comment", Unwrap(self.comment))
  ELSE tag

RECURSIVE ClearPictures(_, _)
\* to_tag, the loop "for i in (0..len).rev() { remove_picture(i) }"
ClearPictures(tag, i) ==
  IF i < 0 THEN tag ELSE ClearPictures(remove_picture(tag, i), i - 1)

\* picture_of_image with the cover path's default: no MIME string is stored
\* as JPEG
picture_of_image_default_mime(image) ==
  Picture_new_unchecked(build_picture_type(image.pic_type),
                        IF IsSome(image.mime_type)
                        THEN Some(MimeType_from_str(Unwrap(image.mime_type)))
                        ELSE Some(Mime("Jpeg")),
                        image.description, image.data)

\* the Picture to_tag builds from one element of all_images
picture_of_image(image) ==
  Picture_new_unchecked(build_picture_type(image.pic_type),
                        IF IsSome(image.mime_type)
                        THEN Some(MimeType_from_str(Unwrap(image.mime_type)))
                        ELSE None,
                        image.description, image.data)

RECURSIVE PushImages(_, _)
\* to_tag, the loop "for image in all_images { push_picture(..) }"
PushImages(tag, images) ==
  IF images = << >> THEN tag
  ELSE PushImages(push_picture(tag, picture_of_image(Head(images))), Tail(images))

\* to_tag, full replace: sort, clear, push
replace_all_pictures(all_images, tag) ==
  LET sorted == sort_by_key(all_images)
      cleared == ClearPictures(tag, Len(tag.pictures) - 1)
  IN PushImages(cleared, sorted)

\* replace_cover that stores the image under the role it was supplied with
replace_cover_keep_role(image, tag) ==
  LET t1 == add_cover_image(tag, image.data, image.description,
                            IF IsSome(image.mime_type)
                            THEN MimeType_from_str(Unwrap(image.mime_type))
                            ELSE Mime("Jpeg"))
  IN [t1 EXCEPT !.pictures[1].pic_type = build_picture_type(image.pic_type)]

\* to_tag, cover-only replace: add_cover_image with the image's own default
replace_cover(image, tag) ==
  add_cover_image(tag, image.data, image.description,
                  IF IsSome(image.mime_type)
                  THEN MimeType_from_str(Unwrap(image.mime_type))
                  ELSE Mime("Jpeg"))

\* to_tag_pictures with the two branches not exclusive: image is written too
to_tag_pictures_both(self, tag) ==
  LET t1 == IF IsSome(self.all_images)
            THEN replace_all_pictures(Unwrap(self.all_images), tag) ELSE tag
  IN IF IsSome(self.image) THEN replace_cover(Unwrap(self.image), t1) ELSE t1

\* self.all_images, else self.image
to_tag_pictures(self, tag) ==
  IF IsSome(self.all_images) THEN replace_all_pictures(Unwrap(self.all_images), tag)
  ELSE IF IsSome(self.image) THEN replace_cover(Unwrap(self.image), tag)
  ELSE tag

\* AudioTags::to_tag
to_tag(self, primary_tag) ==
  LET t1 == to_tag_title(self, primary_tag)
      t2 == to_tag_artists(self, t1)
      t3 == to_tag_album(self, t2)
      t4 == to_tag_year(self, t3)
      t5 == to_tag_genre(self, t4)
      t6 == to_tag_track(self, t5)
      t7 == to_tag_disc(self, t6)
      t8 == to_tag_album_artists(self, t7)
      t9 == to_tag_comment(self, t8)
  IN to_tag_pictures(self, t9)

(***************************************************************************)
(* src/lib.rs: the earlier to_tag and add_cover_image.  Its AudioTags has  *)
(* no all_images and its Image no pic_type; the blocks for title, album,   *)
(* year, genre, track, disc and comment are the same code as in util.rs.   *)
(***************************************************************************)
\* Tag::remove_picture_type: drop every picture of the role
remove_picture_type(tag, pic_type) ==
  [tag EXCEPT !.pictures = SelectSeq(@, LAMBDA p : p.pic_type # pic_type)]

\* Tag::set_picture(index, picture) for a 0-based index: replace the picture
\* at the index, or append when the index is past the end
set_picture(tag, index, picture) ==
  IF index >= Len(tag.pictures) THEN push_picture(tag, picture)
  ELSE [tag EXCEPT !.pictures[index + 1] = picture]

\* lib.rs add_cover_image, the match on kind.mime_type()
lib_cover_mime_type(kind, default_mime_type) ==
  CASE kind = "image/jpeg" -> Mime("Jpeg")
    [] kind = "image/png" -> Mime("Png")
    [] kind = "image/gif" -> Mime("Gif")
    [] kind = "image/tiff" -> Mime("Tiff")
    [] kind = "image/bmp" -> Mime("Bmp")
    [] OTHER -> default_mime_type

\* lib.rs fn add_cover_image: panicked when infer::get(..).expect(..) finds
\* no kind, and then the tag is as it was
lib_add_cover_image(primary_tag, image_data, image_description, default_mime_type) ==
  LET kind == infer_get(image_data)
  IN IF kind = None THEN [panicked |-> TRUE, tag |-> primary_tag]
     ELSE LET mime_type == lib_cover_mime_type(Unwrap(kind), default_mime_type)
              removed == remove_picture_type(primary_tag, "CoverFront")
              cover_front_picture ==
                Picture_new_unchecked("CoverFront", Some(mime_type),
                                      image_description, image_data)
          IN [panicked |-> FALSE, tag |-> set_picture(removed, 0, cover_front_picture)]

\* lib.rs to_tag, self.artists: the joined item only for two or more artists
lib_to_tag_artists(self, tag) ==
  IF IsSome(self.artists) /\ Unwrap(self.artists) # << >>
  THEN LET artists == Unwrap(self.artists)
           removed == remove_key(remove_key(tag, "TrackArtist"), "TrackArtists")
           t1 == insert_text(removed, "TrackArtist", artists[1])
       IN IF Len(artists) > 1
          THEN insert_text(t1, "TrackArtists", join(artists, CommaSpace))
          ELSE t1
  ELSE tag

\* lib.rs to_tag, self.album_artists: the first element only
lib_to_tag_album_artists(self, tag) ==
  IF IsSome(self.album_artists) /\ Unwrap(self.album_artists) # << >>
  THEN insert_text(remove_key(tag, "AlbumArtist"), "AlbumArtist",
                   Unwrap(self.album_artists)[1])
  ELSE tag

\* lib.rs to_tag, self.image
lib_to_tag_image(self, tag) ==
  IF IsSome(self.image)
  THEN LET image == Unwrap(self.image)
       IN lib_add_cover_image(tag, image.data, image.description,
                              IF IsSome(image.mime_type)
                              THEN MimeType_from_str(Unwrap(image.mime_type))
                              ELSE Mime("Jpeg"))
  ELSE [panicked |-> FALSE, tag |-> tag]

\* lib.rs AudioTags::to_tag: the tag it leaves and whether it panicked
lib_to_tag(self, primary_tag) ==
  LET t1 == to_tag_title(self, primary_tag)
      t2 == lib_to_tag_artists(self, t1)
      t3 == to_tag_album(self, t2)
      t4 == to_tag_year(self, t3)
      t5 == to_tag_genre(self, t4)
      t6 == to_tag_track(self, t5)
      t7 == to_tag_disc(self, t6)
      t8 == lib_to_tag_album_artists(self, t7)
      t9 == to_tag_comment(self, t8)
  IN lib_to_tag_image(self, t9)

\* lib.rs fn mime_type_to_string
mime_type_to_string(mime_type) ==
  CASE mime_type.kind = "Jpeg" -> Some("image/jpeg")
    [] mime_type.kind = "Png" -> Some("image/png")
    [] mime_type.kind = "Gif" -> Some("image/gif")
    [] mime_type.kind = "Tiff" -> Some("image/tiff")
    [] mime_type.kind = "Bmp" -> Some("image/bmp")
    [] OTHER -> None

\* lib.rs from_tag, the loop that picks the image: the index of the first
\* cover-front picture, 0 when there is none
first_cover_index(pictures) ==
  IF \E i \in 1..Len(pictures) : pictures[i].pic_type = "CoverFront"
  THEN CHOOSE i \in 1..Len(pictures) :
         /\ pictures[i].pic_type = "CoverFront"
         /\ \A j \in 1..(i - 1) : pictures[j].pic_type # "CoverFront"
  ELSE 0

\* lib.rs from_tag, the image field
lib_image_of(picture) ==
  [data |-> picture.data,
   mime_type |-> mime_type_to_string(Unwrap(picture.mime_type)),
   description |-> picture.description]

\* lib.rs AudioTags::from_tag: panicked when picture.mime_type().unwrap()
\* meets a cover-front picture without a MIME type, else the AudioTags
lib_from_tag(tag) ==
  LET i == first_cover_index(tag.pictures)
      artist == get_string(tag, "TrackArtist")
      artist_list == IF IsSome(artist) THEN Some(<<Unwrap(artist)>>) ELSE None
  IN IF i > 0 /\ tag.pictures[i].mime_type = None
     THEN [panicked |-> TRUE, val |-> None]
     ELSE [panicked |-> FALSE,
           val |-> Some(
             [title |-> get_string(tag, "TrackTitle"),
              artists |-> artist_list,
              album |-> get_string(tag, "AlbumTitle"),
              year |-> Tag_year(tag),
              genre |-> get_string(tag, "Genre"),
              track |-> position_of(get_u32_from_string(tag, "TrackNumber"),
                                    get_u32_from_string(tag, "TrackTotal")),
              album_artists |-> artist_list,
              comment |-> get_string(tag, "Comment"),
              disc |-> position_of(get_u32_from_string(tag, "DiscNumber"),
                                   get_u32_from_string(tag, "DiscTotal")),
              image |-> IF i > 0 THEN Some(lib_image_of(tag.pictures[i]))
                        ELSE None])]

\* write_cover_image_to_buffer: the AudioTags it hands to the write path
cover_only_tags(image_data) ==
  [AudioTags_default EXCEPT
     !.image = Some([data |-> image_data, pic_type |-> "CoverFront",
                     mime_type |-> None, description |-> None])]

(***************************************************************************)
(* Bounded inputs                                                          *)
(***************************************************************************)
MaxPics == 3          \* pictures in a starting tag
MaxImages == 3        \* images in a supplied all_images list
MaxCoverWrites == 2   \* consecutive add_cover_image calls
MaxStrLen == 2        \* characters in a list element (join/split)
MaxListLen == 2       \* elements in a list (join/split)

\* all sequences over S of length at most n
SeqsUpTo(S, n) == UNION {[1..k -> S] : k \in 0..n}

JpegData == <<255, 216, 255, 224>>
PngData == <<137, 80, 78, 71>>
PdfData == <<37, 80, 68, 70>>
RawData == <<1, 2, 3>>

\* pictures a starting tag may hold
PicCover == Picture_new_unchecked("CoverFront", Some(Mime("Jpeg")), Some("front"), JpegData)
PicBack == Picture_new_unchecked("CoverBack", Some(Mime("Png")), Some("back"), PngData)
PicUndefined == Picture_new_unchecked("Undefined", None, None, RawData)
InitPictures == {PicCover, PicBack, PicUndefined}

StrA == <<"a">>
StrB == <<"b">>
Str(n) == u32_to_string(n)

\* the items a tag holds after a complete to_tag
ItemsWritten ==
  << TagItem("TrackTitle", Text(StrA)), TagItem("TrackArtist", Text(StrA)),
     TagItem("TrackArtists", Text(<<"a", ",", " ", "b">>)),
     TagItem("AlbumTitle", Text(StrB)),
     TagItem("Year", Text(Str(1999))), TagItem("RecordingDate", Text(Str(1999))),
     TagItem("Genre", Text(StrA)),
     TagItem("TrackNumber", Text(Str(1))), TagItem("TrackTotal", Text(Str(9))),
     TagItem("DiscNumber", Text(Str(1))), TagItem("DiscTotal", Text(Str(2))),
     TagItem("AlbumArtist", Text(StrB)), TagItem("Comment", Text(StrB)) >>

\* items as a parsed file may hold them: repeated keys, values that are not
\* text, numbers that do not parse, a date instead of a year
ItemsForeign ==
  << TagItem("TrackArtists", Text(StrB)), TagItem("TrackTitle", Text(StrB)),
     TagItem("TrackTitle", Text(StrA)),
     TagItem("TrackArtists", Text(<<" ", "a", " ", ",", "b">>)),
     TagItem("TrackArtist", Binary), TagItem("TrackArtist", Text(StrB)),
     TagItem("TrackNumber", Text(<<"x">>)), TagItem("TrackTotal", Text(Str(7))),
     TagItem("Year", Binary),
     TagItem("RecordingDate", Text(<<"2", "0", "0", "1", "-", "0", "5">>)),
     TagItem("AlbumArtist", Binary), TagItem("AlbumArtist", Text(StrA)),
     TagItem("Comment", Text(StrA)), TagItem("Comment", Text(StrA)) >>

\* only one member of each position, and the singular artist item without
\* a multi-value artists item
ItemsPartial ==
  << TagItem("TrackTotal", Text(Str(3))), TagItem("DiscNumber", Text(Str(1))),
     TagItem("AlbumTitle", Text(StrA)), TagItem("TrackArtist", Text(StrB)) >>

InitItems == {<< >>, ItemsWritten, ItemsForeign, ItemsPartial}

InitTags ==
  {[items |-> its, pictures |-> pics] :
     its \in InitItems, pics \in SeqsUpTo(InitPictures, MaxPics)}

Pos(no, of) == [no |-> no, of |-> of]

\* an AudioTags with every text field present
FullTags ==
  [AudioTags_default EXCEPT
     !.title = Some(StrB), !.artists = Some(<<StrB, StrA>>), !.album = Some(StrA),
     !.year = Some(2024), !.genre = Some(StrB),
     !.track = Some(Pos(Some(2), Some(3))), !.album_artists = Some(<<StrA, StrB>>),
     !.comment = Some(StrA), !.disc = Some(Pos(Some(1), Some(1)))]

StringOptions == {None, Some(StrA)}
ListOptions ==
  {None, Some(<< >>), Some(<<StrA>>), Some(<<StrA, StrB>>),
   Some(<< <<"a", ",", "b">> >>), Some(<< <<" ", "a">>, StrB >>)}
YearOptions == {None, Some(0), Some(1999), Some(12345)}
PositionOptions ==
  {None, Some(Pos(None, None)), Some(Pos(Some(1), None)),
   Some(Pos(None, Some(2))), Some(Pos(Some(10), Some(12)))}

\* the text arguments: one field varied over its options in AudioTags::default()
\* and in FullTags
TextArgs ==
  UNION {
    {[base EXCEPT !.title = v] : v \in StringOptions}
    \cup {[base EXCEPT !.artists = v] : v \in ListOptions}
    \cup {[base EXCEPT !.album = v] : v \in StringOptions}
    \cup {[base EXCEPT !.year = v] : v \in YearOptions}
    \cup {[base EXCEPT !.genre = v] : v \in StringOptions}
    \cup {[base EXCEPT !.track = v] : v \in PositionOptions}
    \cup {[base EXCEPT !.album_artists = v] : v \in ListOptions}
    \cup {[base EXCEPT !.comment = v] : v \in StringOptions}
    \cup {[base EXCEPT !.disc = v] : v \in PositionOptions}
    : base \in {AudioTags_default, FullTags}}

MkImage(data, pic_type, mime_type, description) ==
  [data |-> data, pic_type |-> pic_type, mime_type |-> mime_type,
   description |-> description]

\* images a caller may supply; ImgCover's label disagrees with its bytes
ImgCover == MkImage(PngData, "CoverFront", Some("image/jpeg"), Some("new"))
ImgArtist == MkImage(JpegData, "Artist", None, Some("artist"))
ImgOther == MkImage(RawData, "Other", Some("image/webp"), None)
ImgPdf == MkImage(PdfData, "CoverBack", Some("image/png"), None)
ArgImages == {ImgCover, ImgArtist, ImgOther}

ImageOptions ==
  {None, Some(ImgCover), Some(ImgOther), Some(ImgPdf), cover_only_tags(JpegData).image}
AllImagesOptions == {None} \cup {Some(l) : l \in SeqsUpTo(ArgImages, MaxImages)}

\* the picture arguments, over AudioTags::default() with and without a
\* title: every image alone, and every list with and without an image
PictureArgs ==
  {[AudioTags_default EXCEPT !.image = i] : i \in ImageOptions}
  \cup {[AudioTags_default EXCEPT !.image = i, !.all_images = l] :
     i \in {None, Some(ImgCover), Some(ImgOther)}, l \in AllImagesOptions \ {None}}
  \cup {[FullTags EXCEPT !.image = i, !.all_images = l] :
     i \in {None, Some(ImgCover)}, l \in {None, Some(<<ImgOther, ImgCover>>)}}

ArgSet == TextArgs \cup PictureArgs

\* inputs of a direct add_cover_image call
CoverInputs ==
  {[data |-> JpegData, description |-> Some("c1"), mime_type |-> Mime("Png")],
   [data |-> RawData, description |-> None, mime_type |-> Mime("Jpeg")],
   [data |-> RawData, description |-> Some("c2"), mime_type |-> MimeUnknown("image/webp")],
   [data |-> PdfData, description |-> None, mime_type |-> Mime("Gif")]}

Alphabet == {"a", ",", " "}
JoinLists == SeqsUpTo(SeqsUpTo(Alphabet, MaxStrLen), MaxListLen)

(***************************************************************************)
(* State                                                                   *)
(***************************************************************************)
VARIABLES
  tag,      \* the underlying lofty Tag
  tag0,     \* the Tag as it was before the last write
  arg,      \* the AudioTags of the last to_tag
  pc,       \* the last write: "start", "written", "rewritten", "cover",
            \* "lib_written" or "lib_panicked"
  out,      \* Some(AudioTags) returned by from_tag since the last write
  libOut,   \* Some(outcome) of the from_tag of src/lib.rs since the last write
  cover,    \* Some(inputs) of the last cover-only replacement
  nCover,   \* add_cover_image calls made so far
  jlist,    \* join/split: the list
  jstr,     \* join/split: Some(joined string)
  jback,    \* join/split: Some(list read back)
  role,     \* taxonomy: an AudioImageType value
  ext,      \* taxonomy: a lofty PictureType value
  roleBack, \* taxonomy: Some(role converted out and back)
  extBack,  \* taxonomy: Some(ext converted in, and that converted out)
  file,     \* orchestration: the audio file or buffer that is read
  res,      \* orchestration: Some(result) of the last read operation
  target,     \* store: the file or buffer the operations work on
  target0,    \* store: the target before the last write or clear operation
  lastWrite,  \* store: Some(op and result) of the last write or clear
  lastRead,   \* store: Some(op and result) of the read made since then
  nOps,       \* store: write and clear operations made so far
  running     \* shared file: the two operations under way, what each
              \* read and whether they overlapped

vars ==
  <<tag, tag0, arg, pc, out, libOut, cover, nCover, jlist, jstr, jback,
    role, ext, roleBack, extBack, file, res,
    target, target0, lastWrite, lastRead, nOps, running>>
tagVars == <<tag, tag0, arg, pc, out, libOut, cover, nCover>>
joinVars == <<jlist, jstr, jback>>
roleVars == <<role, ext, roleBack, extBack>>
storeVars == <<target, target0, lastWrite, lastRead, nOps, running>>
fileVars == <<file, res, storeVars>>

\* the inputs a to_tag in cover-only mode hands to add_cover_image
cover_inputs_of(a) ==
  IF a.all_images = None /\ IsSome(a.image)
  THEN LET image == Unwrap(a.image)
       IN Some([data |-> image.data, description |-> image.description,
                mime_type |-> IF IsSome(image.mime_type)
                              THEN MimeType_from_str(Unwrap(image.mime_type))
                              ELSE Mime("Jpeg")])
  ELSE None

\* the parts of the state a specification does not use stay at these values
IdleTag ==
  /\ tag = Tag_new /\ tag0 = Tag_new /\ arg = AudioTags_default
  /\ pc = "start" /\ out = None /\ libOut = None /\ cover = None /\ nCover = 0
IdleJoin == jlist = << >> /\ jstr = None /\ jback = None
IdleRoles == role = "Other" /\ ext = "Other" /\ roleBack = None /\ extBack = None
\* the two operations that share a file, each not yet begun
Operations == {"write_tags", "write_cover_image_to_file"}
NotRunning(tags, image_data) ==
  [at |-> [o \in Operations |-> "idle"],
   seen |-> [o \in Operations |-> None],
   tags |-> tags, image_data |-> image_data, overlapped |-> FALSE]

IdleStore ==
  /\ target = [kind |-> "buffer", openable |-> TRUE, writable |-> TRUE,
               content |-> "audio", primary |-> None]
  /\ target0 = target /\ lastWrite = None /\ lastRead = None /\ nOps = 0
  /\ running = NotRunning(AudioTags_default, << >>)
IdleFile ==
  /\ file = [openable |-> TRUE, content |-> "audio", primary |-> None] /\ res = None
  /\ IdleStore

Init ==
  /\ tag \in InitTags
  /\ tag0 = tag
  /\ arg = AudioTags_default
  /\ pc = "start"
  /\ out = None
  /\ libOut = None
  /\ cover = None
  /\ nCover = 0
  /\ IdleJoin /\ IdleRoles /\ IdleFile

\* a.to_tag(&mut tag) on the starting tag
ToTag ==
  /\ pc = "start"
  /\ \E a \in ArgSet :
       /\ tag' = to_tag(a, tag)
       /\ arg' = a
       /\ cover' = cover_inputs_of(a)
  /\ tag0' = tag
  /\ pc' = "written"
  /\ out' = None
  /\ libOut' = None
  /\ UNCHANGED <<nCover, joinVars, roleVars, fileVars>>

\* the same AudioTags applied a second time
ToTagAgain ==
  /\ pc = "written"
  /\ tag' = to_tag(arg, tag)
  /\ tag0' = tag
  /\ pc' = "rewritten"
  /\ out' = None
  /\ libOut' = None
  /\ UNCHANGED <<arg, cover, nCover, joinVars, roleVars, fileVars>>

\* AudioTags::from_tag(&tag)
FromTag ==
  /\ out = None
  /\ out' = Some(from_tag(tag))
  /\ UNCHANGED <<tag, tag0, arg, pc, libOut, cover, nCover, joinVars, roleVars, fileVars>>

\* add_cover_image called on the tag, possibly several times in a row
AddCoverImage ==
  /\ pc \in {"start", "cover"}
  /\ nCover < MaxCoverWrites
  /\ \E c \in CoverInputs :
       /\ tag' = add_cover_image(tag, c.data, c.description, c.mime_type)
       /\ cover' = Some(c)
  /\ tag0' = tag
  /\ pc' = "cover"
  /\ nCover' = nCover + 1
  /\ out' = None
  /\ libOut' = None
  /\ UNCHANGED <<arg, joinVars, roleVars, fileVars>>

\* the AudioTags of src/lib.rs: those of ArgSet that carry no all_images
LibArgSet == {a \in ArgSet : a.all_images = None}

\* src/lib.rs a.to_tag(&mut tag) on the starting tag
LibToTag ==
  /\ pc = "start"
  /\ \E a \in LibArgSet :
       LET r == lib_to_tag(a, tag)
       IN /\ tag' = r.tag
          /\ arg' = a
          /\ pc' = IF r.panicked THEN "lib_panicked" ELSE "lib_written"
  /\ tag0' = tag
  /\ cover' = None
  /\ out' = None
  /\ libOut' = None
  /\ UNCHANGED <<nCover, joinVars, roleVars, fileVars>>

\* src/lib.rs AudioTags::from_tag(&tag), on a starting tag or on the tag
\* its own to_tag left
LibFromTag ==
  /\ pc \in {"start", "lib_written"}
  /\ libOut = None
  /\ libOut' = Some(lib_from_tag(tag))
  /\ UNCHANGED <<tag, tag0, arg, pc, out, cover, nCover, joinVars, roleVars, fileVars>>

Next == ToTag \/ ToTagAgain \/ FromTag \/ AddCoverImage \/ LibToTag \/ LibFromTag

Spec == Init /\ [][Next]_vars

(***************************************************************************)
(* src/lib.rs on its own: to_tag and from_tag on tags that may hold a      *)
(* cover-front picture stored without a MIME type                          *)
(***************************************************************************)
PicCoverNoMime == Picture_new_unchecked("CoverFront", None, Some("bare"), PngData)

LibInitTags ==
  {[items |-> its, pictures |-> pics] :
     its \in {<< >>, ItemsWritten},
     pics \in SeqsUpTo({PicCover, PicCoverNoMime, PicBack, PicUndefined}, MaxPics)}

InitLib ==
  /\ tag \in LibInitTags
  /\ tag0 = tag
  /\ arg = AudioTags_default
  /\ pc = "start"
  /\ out = None
  /\ libOut = None
  /\ cover = None
  /\ nCover = 0
  /\ IdleJoin /\ IdleRoles /\ IdleFile

NextLib == LibToTag \/ LibFromTag

SpecLib == InitLib /\ [][NextLib]_vars

(***************************************************************************)
(* Read-modify-write on a tag: a = from_tag(t), a.to_tag(t), from_tag(t)   *)
(***************************************************************************)
PicWebp == Picture_new_unchecked("Artist", Some(MimeUnknown("image/webp")), None, RawData)

RmwInitTags ==
  {[items |-> its, pictures |-> pics] :
     its \in InitItems,
     pics \in SeqsUpTo({PicCover, PicCoverNoMime, PicBack, PicUndefined, PicWebp}, MaxPics)}

InitRmw ==
  /\ tag \in RmwInitTags
  /\ tag0 = tag
  /\ arg = AudioTags_default
  /\ pc = "start"
  /\ out = None
  /\ libOut = None
  /\ cover = None
  /\ nCover = 0
  /\ IdleJoin /\ IdleRoles /\ IdleFile

\* the AudioTags just read from the tag is written back to it
WriteBack ==
  /\ pc = "start"
  /\ IsSome(out)
  /\ tag' = to_tag(Unwrap(out), tag)
  /\ arg' = Unwrap(out)
  /\ cover' = cover_inputs_of(Unwrap(out))
  /\ tag0' = tag
  /\ pc' = "written_back"
  /\ out' = None
  /\ libOut' = None
  /\ UNCHANGED <<nCover, joinVars, roleVars, fileVars>>

NextRmw == FromTag \/ WriteBack

SpecRmw == InitRmw /\ [][NextRmw]_vars

(***************************************************************************)
(* Join and split of a multi-value item, on its own                        *)
(***************************************************************************)
InitJoin ==
  /\ jlist \in JoinLists
  /\ jstr = None /\ jback = None
  /\ IdleTag /\ IdleRoles /\ IdleFile

\* artists.join(", "), as to_tag stores it for a list that is not empty
JoinList ==
  /\ jstr = None
  /\ jlist # << >>
  /\ jstr' = Some(join(jlist, CommaSpace))
  /\ UNCHANGED <<jlist, jback, tagVars, roleVars, fileVars>>

\* get_values_from_item on a tag holding the joined string as its one item
SplitItem ==
  /\ IsSome(jstr) /\ jback = None
  /\ jback' = Some(get_values_from_item(
                     push(Tag_new, TagItem("TrackArtists", Text(Unwrap(jstr)))),
                     "TrackArtists"))
  /\ UNCHANGED <<jlist, jstr, tagVars, roleVars, fileVars>>

NextJoin == JoinList \/ SplitItem

SpecJoin == InitJoin /\ [][NextJoin]_vars

(***************************************************************************)
(* The picture-role taxonomy, on its own                                   *)
(***************************************************************************)
InitRoles ==
  /\ role \in AudioImageType
  /\ ext \in PictureType
  /\ roleBack = None /\ extBack = None
  /\ IdleTag /\ IdleJoin /\ IdleFile

\* from_picture_type(&x.build_picture_type())
ConvertRole ==
  /\ roleBack = None
  /\ roleBack' = Some(from_picture_type(build_picture_type(role)))
  /\ UNCHANGED <<role, ext, extBack, tagVars, joinVars, fileVars>>

\* from_picture_type(&ext), and that value's build_picture_type()
ConvertExternal ==
  /\ extBack = None
  /\ extBack' = Some([internal |-> from_picture_type(ext),
                      external |-> build_picture_type(from_picture_type(ext))])
  /\ UNCHANGED <<role, ext, roleBack, tagVars, joinVars, fileVars>>

NextRoles == ConvertRole \/ ConvertExternal

SpecRoles == InitRoles /\ [][NextRoles]_vars

(***************************************************************************)
(* Read orchestration: read_tags and read_tags_from_buffer                 *)
(***************************************************************************)
\* Result<AudioTags, String>
Ok(v) == [ok |-> TRUE, val |-> Some(v), err |-> << >>]
Err(e) == [ok |-> FALSE, val |-> None, err |-> e]

\* an error message is the sequence of its fragments; IoError stands for
\* the text of the io::Error or LoftyError a format! puts after its prefix
IoError == "{}"

\* what the probe finds in a file or buffer: guess_file_type fails, read
\* fails, or the audio parses; primary is the parsed file's primary tag
Contents == {"guess_fails", "read_fails", "audio"}

\* generic_read_tags returning from_tag of an empty tag when there is none
generic_read_tags_empty_tag(f) ==
  IF f.content = "guess_fails" THEN Err(<<"Failed to guess file type">>)
  ELSE IF f.content = "read_fails" THEN Err(<<"Failed to read audio file">>)
  ELSE IF f.primary = None THEN Ok(from_tag(Tag_new))
  ELSE Ok(from_tag(Unwrap(f.primary)))

\* async fn generic_read_tags(file)
generic_read_tags(f) ==
  IF f.content = "guess_fails" THEN Err(<<"Failed to guess file type">>)
  ELSE IF f.content = "read_fails" THEN Err(<<"Failed to read audio file">>)
  ELSE IF f.primary = None THEN Ok(AudioTags_default)
  ELSE Ok(from_tag(Unwrap(f.primary)))

\* pub async fn read_tags(file_path)
read_tags(f) ==
  IF ~f.openable THEN Err(<<"Failed to open file: ", IoError>>) ELSE generic_read_tags(f)

\* pub async fn read_tags_from_buffer(buffer)
read_tags_from_buffer(f) == generic_read_tags(f)

InitFiles ==
  {[openable |-> o, content |-> c, primary |-> None] :
     o \in BOOLEAN, c \in Contents}
  \cup {[openable |-> o, content |-> "audio", primary |-> Some(t)] :
     o \in BOOLEAN, t \in InitTags}

InitFile ==
  /\ file \in InitFiles
  /\ res = None
  /\ IdleTag /\ IdleJoin /\ IdleRoles /\ IdleStore

\* read_tags on the path of the file
ReadTags ==
  /\ res = None
  /\ res' = Some([op |-> "read_tags", result |-> read_tags(file)])
  /\ UNCHANGED <<file, tagVars, joinVars, roleVars, storeVars>>

\* read_tags_from_buffer on the bytes of the file
ReadTagsFromBuffer ==
  /\ res = None
  /\ res' = Some([op |-> "read_tags_from_buffer",
                  result |-> read_tags_from_buffer(file)])
  /\ UNCHANGED <<file, tagVars, joinVars, roleVars, storeVars>>

NextFile == ReadTags \/ ReadTagsFromBuffer

SpecFile == InitFile /\ [][NextFile]_vars

(***************************************************************************)
(* Write orchestration: the operations that write, clear and read a file   *)
(* or a buffer.  A target is an MP3 file or buffer whose primary tag is an *)
(* ID3v2 tag; save_to and the probe are taken to carry a Tag unchanged     *)
(* between memory and bytes.                                               *)
(***************************************************************************)
Unit == "()"

\* the bytes of a target, as the probe sees them
Bytes(t) == [content |-> t.content, primary |-> t.primary]

\* how a save can end: done, failed with nothing written, or failed after
\* the destination was truncated and partly rewritten
SaveOutcomes == {"ok", "fails", "fails_midway"}

\* the bytes a save leaves when it fails midway: no parsable audio
Damaged == [content |-> "read_fails", primary |-> None]

\* the primary tag a later probe finds after save_to wrote a tag: an ID3v2
\* tag without frames is written as no tag at all
persisted(t) == IF t = Tag_new THEN None ELSE Some(t)

\* tagged_file.save_to(out, ..).map_err(|e| format!("<prefix>{}", e))
save_to(t, dest, io, prefix) ==
  CASE io = "ok" ->
         [result |-> Ok(Unit),
          bytes |-> [content |-> "audio", primary |-> persisted(t)]]
    [] io = "fails" -> [result |-> Err(<<prefix, IoError>>), bytes |-> dest]
    [] OTHER -> [result |-> Err(<<prefix, IoError>>), bytes |-> Damaged]

\* generic_write_tags that always starts from a new tag, not from the tag
\* the file holds
generic_write_tags_fresh_tag(input, dest, tags, io) ==
  IF input.content = "guess_fails"
  THEN [result |-> Err(<<"Failed to guess file type">>), bytes |-> dest]
  ELSE IF input.content = "read_fails"
  THEN [result |-> Err(<<"Failed to read audio file">>), bytes |-> dest]
  ELSE save_to(to_tag(tags, Tag_new), dest, io, "Failed to write audio to buffer: ")

\* async fn generic_write_tags(file, out, tags)
generic_write_tags(input, dest, tags, io) ==
  IF input.content = "guess_fails"
  THEN [result |-> Err(<<"Failed to guess file type">>), bytes |-> dest]
  ELSE IF input.content = "read_fails"
  THEN [result |-> Err(<<"Failed to read audio file">>), bytes |-> dest]
  ELSE LET primary_tag == IF input.primary = None THEN Tag_new
                          ELSE Unwrap(input.primary)
       IN save_to(to_tag(tags, primary_tag), dest, io,
                  "Failed to write audio to buffer: ")

\* write_tags that opens the file for reading only before it probes it
write_tags_one_open(f, tags, io) ==
  IF ~f.openable
  THEN [result |-> Err(<<"Failed to open file: ", IoError>>), bytes |-> Bytes(f)]
  ELSE LET r == generic_write_tags(Bytes(f), Bytes(f), tags, io)
       IN IF r.result.ok /\ ~f.writable
          THEN [result |-> Err(<<"Failed to open file: ", IoError>>),
                bytes |-> Bytes(f)]
          ELSE r

\* pub async fn write_tags(file_path, tags): the file is opened for
\* reading, then for reading and writing
write_tags(f, tags, io) ==
  IF ~f.openable \/ ~f.writable
  THEN [result |-> Err(<<"Failed to open file: ", IoError>>), bytes |-> Bytes(f)]
  ELSE generic_write_tags(Bytes(f), Bytes(f), tags, io)

\* pub async fn write_tags_to_buffer(buffer, tags): Ok carries the output
write_tags_to_buffer(buffer, tags, io) ==
  LET r == generic_write_tags(Bytes(buffer), Bytes(buffer), tags, io)
  IN IF r.result.ok THEN [result |-> Ok(r.bytes), bytes |-> r.bytes]
     ELSE [result |-> r.result, bytes |-> Bytes(buffer)]

\* generic_clear_tags that saves the file without inserting the empty tag
generic_clear_tags_keep_tag(input, dest, io) ==
  IF input.content = "guess_fails"
  THEN [result |-> Err(<<"Failed to guess file type">>), bytes |-> dest]
  ELSE IF input.content = "read_fails"
  THEN [result |-> Err(<<"Failed to read audio file">>), bytes |-> dest]
  ELSE save_to(IF input.primary = None THEN Tag_new ELSE Unwrap(input.primary),
               dest, io, "Failed to write audio file: ")

\* async fn generic_clear_tags(file, out)
generic_clear_tags(input, dest, io) ==
  IF input.content = "guess_fails"
  THEN [result |-> Err(<<"Failed to guess file type">>), bytes |-> dest]
  ELSE IF input.content = "read_fails"
  THEN [result |-> Err(<<"Failed to read audio file">>), bytes |-> dest]
  ELSE LET empty_tag == Tag_new
       IN save_to(empty_tag, dest, io, "Failed to write audio file: ")

\* pub async fn clear_tags(file_path)
clear_tags(f, io) ==
  IF ~f.openable \/ ~f.writable
  THEN [result |-> Err(<<"Failed to open file: ", IoError>>), bytes |-> Bytes(f)]
  ELSE generic_clear_tags(Bytes(f), Bytes(f), io)

\* pub async fn clear_tags_to_buffer(buffer)
clear_tags_to_buffer(buffer, io) ==
  LET r == generic_clear_tags(Bytes(buffer), Bytes(buffer), io)
  IN IF r.result.ok THEN [result |-> Ok(r.bytes), bytes |-> r.bytes]
     ELSE [result |-> r.result, bytes |-> Bytes(buffer)]

\* pub async fn read_cover_image_from_buffer(buffer)
read_cover_image_from_buffer(buffer) ==
  LET tags == read_tags_from_buffer(buffer)
  IN IF ~tags.ok THEN tags
     ELSE IF IsSome(Unwrap(tags.val).image)
     THEN Ok(Some(Unwrap(Unwrap(tags.val).image).data))
     ELSE Ok(None)

\* pub async fn read_cover_image_from_file(file_path)
read_cover_image_from_file(f) ==
  IF ~f.openable THEN Err(<<"Failed to read file: ", IoError>>)
  ELSE read_cover_image_from_buffer(f)

\* pub async fn write_cover_image_to_buffer(buffer, image_data)
write_cover_image_to_buffer(buffer, image_data, io) ==
  LET r == write_tags_to_buffer(buffer, cover_only_tags(image_data), io)
  IN IF r.result.ok THEN r
     ELSE [result |-> Err(<<"Failed to write cover image to buffer: ">> \o r.result.err),
           bytes |-> r.bytes]

\* pub async fn write_cover_image_to_file(file_path, image_data): fs::read,
\* write_cover_image_to_buffer, then fs::write, which truncates the file
\* before it writes
write_cover_image_to_file(f, image_data, io, io_file) ==
  IF ~f.openable
  THEN [result |-> Err(<<"Failed to read file: ", IoError>>), bytes |-> Bytes(f)]
  ELSE LET r == write_cover_image_to_buffer(f, image_data, io)
       IN IF ~r.result.ok THEN [result |-> r.result, bytes |-> Bytes(f)]
          ELSE IF ~f.writable \/ io_file = "fails"
          THEN [result |-> Err(<<"Failed to write file: ", IoError>>),
                bytes |-> Bytes(f)]
          ELSE IF io_file = "fails_midway"
          THEN [result |-> Err(<<"Failed to write file: ", IoError>>),
                bytes |-> Damaged]
          ELSE [result |-> Ok(Unit), bytes |-> r.bytes]

MaxOps == 2           \* write and clear operations in a row

\* the tags a target may hold at the start
StoreTags ==
  {[items |-> ItemsWritten, pictures |-> <<PicCover, PicBack>>],
   [items |-> ItemsPartial, pictures |-> << >>]}

StoreBytes ==
  {[content |-> c, primary |-> None] : c \in Contents}
  \cup {[content |-> "audio", primary |-> Some(t)] : t \in StoreTags}

\* a file with its permissions, or a buffer in memory
StoreTargets ==
  {[kind |-> "file", openable |-> o, writable |-> w,
    content |-> b.content, primary |-> b.primary] :
     o \in BOOLEAN, w \in BOOLEAN, b \in StoreBytes}
  \cup {[kind |-> "buffer", openable |-> TRUE, writable |-> TRUE,
         content |-> b.content, primary |-> b.primary] : b \in StoreBytes}

\* the AudioTags and the cover bytes the operations are given
StoreArgs ==
  {AudioTags_default,
   [AudioTags_default EXCEPT !.title = Some(StrB)],
   [FullTags EXCEPT !.image = Some(ImgCover)]}
StoreImages == {JpegData, RawData}

InitStore ==
  /\ target \in StoreTargets
  /\ target0 = target
  /\ lastWrite = None /\ lastRead = None /\ nOps = 0
  /\ running = NotRunning(AudioTags_default, << >>)
  /\ file = [openable |-> TRUE, content |-> "audio", primary |-> None] /\ res = None
  /\ IdleTag /\ IdleJoin /\ IdleRoles

\* the target after an operation that wrote r.bytes to it
Stored(op, r) ==
  /\ target' = [target EXCEPT !.content = r.bytes.content,
                              !.primary = r.bytes.primary]
  /\ target0' = target
  /\ lastWrite' = Some([op |-> op, result |-> r.result])
  /\ lastRead' = None
  /\ nOps' = nOps + 1
  /\ UNCHANGED <<running, file, res, tagVars, joinVars, roleVars>>

WriteTags ==
  /\ target.kind = "file" /\ nOps < MaxOps
  /\ \E tags \in StoreArgs, io \in SaveOutcomes :
       Stored("write_tags", write_tags(target, tags, io))

\* write_tags_to_buffer; the caller goes on with the buffer it returns
WriteTagsToBuffer ==
  /\ target.kind = "buffer" /\ nOps < MaxOps
  /\ \E tags \in StoreArgs, io \in SaveOutcomes :
       Stored("write_tags_to_buffer", write_tags_to_buffer(target, tags, io))

ClearTags ==
  /\ target.kind = "file" /\ nOps < MaxOps
  /\ \E io \in SaveOutcomes : Stored("clear_tags", clear_tags(target, io))

\* clear_tags_to_buffer; the caller goes on with the buffer it returns
ClearTagsToBuffer ==
  /\ target.kind = "buffer" /\ nOps < MaxOps
  /\ \E io \in SaveOutcomes :
       Stored("clear_tags_to_buffer", clear_tags_to_buffer(target, io))

WriteCoverImageToFile ==
  /\ target.kind = "file" /\ nOps < MaxOps
  /\ \E image_data \in StoreImages, io \in SaveOutcomes, io_file \in SaveOutcomes :
       Stored("write_cover_image_to_file",
              write_cover_image_to_file(target, image_data, io, io_file))

\* write_cover_image_to_buffer; the caller goes on with the buffer it returns
WriteCoverImageToBuffer ==
  /\ target.kind = "buffer" /\ nOps < MaxOps
  /\ \E image_data \in StoreImages, io \in SaveOutcomes :
       Stored("write_cover_image_to_buffer",
              write_cover_image_to_buffer(target, image_data, io))

\* read_tags on a file, read_tags_from_buffer on a buffer
StoreReadTags ==
  /\ lastRead = None
  /\ lastRead' = Some(IF target.kind = "file"
                      THEN [op |-> "read_tags", result |-> read_tags(target)]
                      ELSE [op |-> "read_tags_from_buffer",
                            result |-> read_tags_from_buffer(target)])
  /\ UNCHANGED <<target, target0, lastWrite, nOps, running, file, res,
                 tagVars, joinVars, roleVars>>

\* read_cover_image_from_file on a file, read_cover_image_from_buffer on a
\* buffer
StoreReadCoverImage ==
  /\ lastRead = None
  /\ lastRead' = Some(IF target.kind = "file"
                      THEN [op |-> "read_cover_image_from_file",
                            result |-> read_cover_image_from_file(target)]
                      ELSE [op |-> "read_cover_image_from_buffer",
                            result |-> read_cover_image_from_buffer(target)])
  /\ UNCHANGED <<target, target0, lastWrite, nOps, running, file, res,
                 tagVars, joinVars, roleVars>>

NextStore ==
  \/ WriteTags \/ WriteTagsToBuffer \/ ClearTags \/ ClearTagsToBuffer
  \/ WriteCoverImageToFile \/ WriteCoverImageToBuffer
  \/ StoreReadTags \/ StoreReadCoverImage

SpecStore == InitStore /\ [][NextStore]_vars

(***************************************************************************)
(* Two operations on one file.  write_tags and write_cover_image_to_file   *)
(* are async fns whose bodies make blocking calls and take no lock: run on *)
(* two threads of the runtime, or in two processes, the reads and writes   *)
(* of the two interleave freely.  Each operation is two steps on the file: *)
(* the read of its content and the write of the new content.               *)
(***************************************************************************)
\* write_tags is given text fields, write_cover_image_to_file a cover
SharedArgs ==
  {[AudioTags_default EXCEPT !.title = Some(StrB)],
   [AudioTags_default EXCEPT !.album = Some(StrB), !.year = Some(2001)],
   [AudioTags_default EXCEPT !.title = Some(StrA), !.comment = Some(StrA)]}
SharedImages == {JpegData, PngData}

SharedTargets ==
  {[kind |-> "file", openable |-> TRUE, writable |-> TRUE,
    content |-> "audio", primary |-> p] :
     p \in {None} \cup {Some(t) : t \in StoreTags}}

InitShared ==
  /\ target \in SharedTargets
  /\ target0 = target
  /\ lastWrite = None /\ lastRead = None /\ nOps = 0
  /\ \E tags \in SharedArgs, image_data \in SharedImages :
       running = NotRunning(tags, image_data)
  /\ file = [openable |-> TRUE, content |-> "audio", primary |-> None] /\ res = None
  /\ IdleTag /\ IdleJoin /\ IdleRoles

\* an operation reads the file: it keeps what it read, and overlaps the
\* other operation when that one has read and not yet written
Reads(o) ==
  /\ running.at[o] = "idle"
  /\ running' = [running EXCEPT
                   !.at[o] = "read",
                   !.seen[o] = Some(Bytes(target)),
                   !.overlapped = @ \/ \E q \in Operations \ {o} :
                                          running.at[q] = "read"]
  /\ UNCHANGED <<target, target0, lastWrite, lastRead, nOps, file, res,
                 tagVars, joinVars, roleVars>>

\* an operation writes the file: r is its outcome, computed from what it
\* read
Writes(o, r) ==
  /\ running.at[o] = "read"
  /\ running' = [running EXCEPT !.at[o] = "done"]
  /\ target' = [target EXCEPT !.content = r.bytes.content,
                              !.primary = r.bytes.primary]
  /\ target0' = target
  /\ lastWrite' = Some([op |-> o, result |-> r.result])
  /\ UNCHANGED <<lastRead, nOps, file, res, tagVars, joinVars, roleVars>>

\* write_tags: File::open, and the probe that reads and parses the file
WriteTagsRead == Reads("write_tags")

\* write_tags: to_tag on the tag that was parsed, then save_to on the file
WriteTagsSave ==
  /\ running.at["write_tags"] = "read"
  /\ Writes("write_tags",
            generic_write_tags(Unwrap(running.seen["write_tags"]), Bytes(target),
                               running.tags, "ok"))

\* write_cover_image_to_file: fs::read
WriteCoverRead == Reads("write_cover_image_to_file")

\* write_cover_image_to_file: write_cover_image_to_buffer on the bytes that
\* were read, then fs::write of the buffer it returned
WriteCoverWrite ==
  /\ running.at["write_cover_image_to_file"] = "read"
  /\ LET buffer == Unwrap(running.seen["write_cover_image_to_file"])
     IN Writes("write_cover_image_to_file",
               write_cover_image_to_file(
                 [target EXCEPT !.content = buffer.content,
                                !.primary = buffer.primary],
                 running.image_data, "ok", "ok"))

NextShared == WriteTagsRead \/ WriteTagsSave \/ WriteCoverRead \/ WriteCoverWrite

SpecShared == InitShared /\ [][NextShared]_vars

(***************************************************************************)
(* Vocabulary of the properties                                            *)
(***************************************************************************)
IsCover(p) == p.pic_type = "CoverFront"
Covers(seq) == SelectSeq(seq, IsCover)
NonCovers(seq) == SelectSeq(seq, LAMBDA p : ~IsCover(p))
HasCover(seq) == \E i \in 1..Len(seq) : IsCover(seq[i])

\* the items a tag stores under a set of keys, in tag order
ItemsUnder(t, keys) == SelectSeq(t.items, LAMBDA it : it.key \in keys)

\* the last write was a to_tag
Wrote == pc \in {"written", "rewritten"}
FullReplace == Wrote /\ IsSome(arg.all_images)
CoverOnly == (Wrote /\ arg.all_images = None /\ IsSome(arg.image)) \/ pc = "cover"

\* s occurs in str as a contiguous substring
Contains(str, s) ==
  \E i \in 1..(Len(str) - Len(s) + 1) : SubSeq(str, i, i + Len(s) - 1) = s

Trimmed(str) == str = << >> \/ (~IsWhitespace(str[1]) /\ ~IsWhitespace(str[Len(str)]))
NoCommaTrimmed(list) ==
  \A i \in 1..Len(list) : ~Contains(list[i], <<",">>) /\ Trimmed(list[i])
ListOrEmpty(o) == IF IsSome(o) THEN o ELSE Some(<< >>)

(***************************************************************************)
(* C1  Idempotent rewrite: applying the same AudioTags to the tag a second *)
(* time leaves the items and the ordered picture list exactly as the first *)
(* application left them, in full-replace and in cover-only mode.          *)
(***************************************************************************)
C1_Idempotent == pc = "rewritten" => tag = tag0

C1_Witness ==
  /\ pc = "rewritten"
  /\ IsSome(arg.artists) /\ Len(Unwrap(arg.artists)) = 2
  /\ arg.all_images = None /\ IsSome(arg.image)
  /\ Len(tag.pictures) >= 2 /\ Len(get_items(tag, "TrackArtists")) = 1

(***************************************************************************)
(* C2  Cover-first invariant: in every all_images returned by from_tag and *)
(* in the tag's picture list after every to_tag or add_cover_image that    *)
(* writes pictures, a cover-front picture, if there is one, is at index 0. *)
(***************************************************************************)
C2_CoverFirst ==
  /\ (IsSome(out) /\ IsSome(Unwrap(out).all_images)) =>
       LET l == Unwrap(Unwrap(out).all_images)
       IN l # << >> /\ (HasCover(l) => IsCover(l[1]))
  /\ (FullReplace \/ CoverOnly) =>
       (HasCover(tag.pictures) => IsCover(tag.pictures[1]))

C2_Witness ==
  /\ pc = "written" /\ IsSome(arg.all_images)
  /\ HasCover(Unwrap(arg.all_images)) /\ ~IsCover(Unwrap(arg.all_images)[1])
  /\ Len(tag.pictures) = 3
  /\ IsSome(out) /\ IsCover(Unwrap(Unwrap(out).all_images)[1])

(***************************************************************************)
(* C3  image/all_images consistency: from_tag returns image = Some(x)      *)
(* exactly when all_images is present and its first element is x with      *)
(* cover-front role; otherwise image is None.                              *)
(***************************************************************************)
C3_ImageConsistent ==
  IsSome(out) =>
    LET o == Unwrap(out)
        firstIsCover == IsSome(o.all_images) /\ IsCover(Unwrap(o.all_images)[1])
    IN /\ IsSome(o.image) <=> firstIsCover
       /\ IsSome(o.image) => Unwrap(o.image) = Unwrap(o.all_images)[1]
       /\ tag.pictures = << >> => (o.image = None /\ o.all_images = None)

C3_Witness ==
  /\ IsSome(out) /\ IsSome(Unwrap(out).image)
  /\ Len(tag.pictures) = 3 /\ ~IsCover(tag.pictures[1])

(***************************************************************************)
(* C4  Partial update: a field that is None in the AudioTags keeps exactly *)
(* its underlying items across to_tag, the picture list is unchanged when  *)
(* image and all_images are both None, and AudioTags::default() changes    *)
(* nothing at all.                                                         *)
(***************************************************************************)
FieldKeys ==
  [title |-> {"TrackTitle"}, artists |-> {"TrackArtist", "TrackArtists"},
   album |-> {"AlbumTitle"}, year |-> {"Year", "RecordingDate"},
   genre |-> {"Genre"}, track |-> {"TrackNumber", "TrackTotal"},
   album_artists |-> {"AlbumArtist"}, comment |-> {"Comment"},
   disc |-> {"DiscNumber", "DiscTotal"}]

C4_PartialUpdate ==
  Wrote =>
    /\ \A f \in DOMAIN FieldKeys :
         arg[f] = None => ItemsUnder(tag, FieldKeys[f]) = ItemsUnder(tag0, FieldKeys[f])
    /\ (arg.image = None /\ arg.all_images = None) => tag.pictures = tag0.pictures
    /\ arg = AudioTags_default => tag = tag0

C4_Witness ==
  /\ pc = "written" /\ tag # tag0
  /\ arg.title = None /\ Len(get_items(tag0, "TrackTitle")) = 2
  /\ arg.year = None /\ get_items(tag0, "Year") # << >>
  /\ arg.image = None /\ arg.all_images = None /\ Len(tag0.pictures) = 3

(***************************************************************************)
(* C5  Write/read round trip on a fresh tag, as claimed: with list         *)
(* elements free of commas and of surrounding whitespace, to_tag on an     *)
(* empty tag followed by from_tag returns title, album, year, genre,       *)
(* comment, track and disc equal to the AudioTags' and the two lists in    *)
(* order (None read back as the empty list).                               *)
(***************************************************************************)
FreshRoundTrip == pc = "written" /\ tag0 = Tag_new /\ IsSome(out)
ListsRoundTrippable(a) ==
  /\ IsSome(a.artists) => NoCommaTrimmed(Unwrap(a.artists))
  /\ IsSome(a.album_artists) => NoCommaTrimmed(Unwrap(a.album_artists))
TextAndListsBack(a, o) ==
  /\ o.title = a.title /\ o.album = a.album /\ o.genre = a.genre
  /\ o.comment = a.comment
  /\ o.artists = ListOrEmpty(a.artists)
  /\ o.album_artists = ListOrEmpty(a.album_artists)

C5_Original ==
  (FreshRoundTrip /\ ListsRoundTrippable(arg)) =>
    LET o == Unwrap(out)
    IN /\ TextAndListsBack(arg, o)
       /\ o.year = arg.year /\ o.track = arg.track /\ o.disc = arg.disc

(***************************************************************************)
(* C5 (amended)  The same round trip holds when the year has at most four  *)
(* digits, and with a Position whose two members are both None read back   *)
(* as None.                                                                *)
(***************************************************************************)
PositionBack(p) == IF p = Some(Pos(None, None)) THEN None ELSE p

C5_RoundTrip ==
  (/\ FreshRoundTrip /\ ListsRoundTrippable(arg)
   /\ IsSome(arg.year) => Unwrap(arg.year) <= 9999) =>
    LET o == Unwrap(out)
    IN /\ TextAndListsBack(arg, o)
       /\ o.year = arg.year
       /\ o.track = PositionBack(arg.track) /\ o.disc = PositionBack(arg.disc)

C5_Witness ==
  /\ FreshRoundTrip
  /\ IsSome(arg.artists) /\ Len(Unwrap(arg.artists)) = 2
  /\ arg.track = Some(Pos(Some(10), Some(12)))
  /\ arg.year = Some(2024) /\ IsSome(arg.title)
  /\ Unwrap(out).track = arg.track

(***************************************************************************)
(* C6  Join/split round trip, as claimed: for a list none of whose         *)
(* elements contains ", ", joining with ", " and reading the item back     *)
(* with get_values_from_item reproduces the list.                          *)
(***************************************************************************)
C6_Original ==
  (IsSome(jback) /\ \A i \in 1..Len(jlist) : ~Contains(jlist[i], CommaSpace)) =>
    Unwrap(jback) = jlist

(***************************************************************************)
(* C6 (amended)  The round trip holds for every non-empty list none of     *)
(* whose elements contains a comma or begins or ends with whitespace.      *)
(***************************************************************************)
C6_JoinSplit ==
  (IsSome(jback) /\ jlist # << >> /\ NoCommaTrimmed(jlist)) => Unwrap(jback) = jlist

C6_Witness ==
  /\ IsSome(jback) /\ Len(jlist) = 2 /\ NoCommaTrimmed(jlist)
  /\ Len(jlist[1]) = 2 /\ jlist[2] # << >> /\ jlist[1] # jlist[2]
  /\ Unwrap(jback) = jlist

(***************************************************************************)
(* C7  Full picture replace: with all_images present, the picture list     *)
(* after to_tag is the supplied list with the cover-front images first and *)
(* the others in their supplied relative order; its length is the supplied *)
(* length and no earlier picture survives unless it was supplied.          *)
(***************************************************************************)
Partitioned(l) == Covers(l) \o NonCovers(l)

C7_FullReplace ==
  FullReplace =>
    LET l == Unwrap(arg.all_images)
        supplied == {picture_of_image(l[j]) : j \in 1..Len(l)}
    IN /\ tag.pictures = MapSeq(Partitioned(l), picture_of_image)
       /\ Len(tag.pictures) = Len(l)
       /\ \A i \in 1..Len(tag0.pictures) :
            tag0.pictures[i] \notin supplied =>
              \A k \in 1..Len(tag.pictures) : tag.pictures[k] # tag0.pictures[i]

C7_Witness ==
  /\ pc = "written" /\ IsSome(arg.all_images)
  /\ Len(Unwrap(arg.all_images)) = 3
  /\ IsCover(Unwrap(arg.all_images)[2])
  /\ ~IsCover(Unwrap(arg.all_images)[1]) /\ ~IsCover(Unwrap(arg.all_images)[3])
  /\ Unwrap(arg.all_images)[1] # Unwrap(arg.all_images)[3]
  /\ Len(tag0.pictures) = 3
  /\ tag.pictures[2] = picture_of_image(Unwrap(arg.all_images)[1])

(***************************************************************************)
(* C8  Cover-only replace keeps the other pictures: the picture list       *)
(* becomes the new cover-front picture at index 0 followed by exactly the  *)
(* pictures that had another role, unchanged and in their earlier order.   *)
(***************************************************************************)
C8_CoverOnlyKeepsOthers ==
  CoverOnly =>
    LET c == Unwrap(cover)
    IN /\ tag.pictures # << >>
       /\ IsCover(tag.pictures[1])
       /\ tag.pictures[1].data = c.data
       /\ tag.pictures[1].description = c.description
       /\ Tail(tag.pictures) = NonCovers(tag0.pictures)

C8_Witness ==
  /\ pc = "written" /\ arg.all_images = None /\ IsSome(arg.image)
  /\ Len(tag0.pictures) = 3
  /\ ~IsCover(tag0.pictures[1]) /\ IsCover(tag0.pictures[2]) /\ ~IsCover(tag0.pictures[3])
  /\ tag0.pictures[1] # tag0.pictures[3]
  /\ Len(tag.pictures) = 3

(***************************************************************************)
(* C9  all_images precedence: when all_images is present (the empty list   *)
(* included) to_tag ignores image: the tag is the one the same AudioTags   *)
(* without image produces, and it holds the supplied images and no other.  *)
(***************************************************************************)
C9_AllImagesPrecedence ==
  (pc = "written" /\ IsSome(arg.all_images)) =>
    LET l == Unwrap(arg.all_images)
    IN /\ tag = to_tag([arg EXCEPT !.image = None], tag0)
       /\ Len(tag.pictures) = Len(l)
       /\ \A k \in 1..Len(tag.pictures) :
            \E j \in 1..Len(l) :
              /\ tag.pictures[k].data = l[j].data
              /\ tag.pictures[k].description = l[j].description
              /\ tag.pictures[k].pic_type = l[j].pic_type

C9_Witness ==
  /\ pc = "written" /\ arg.all_images = Some(<< >>) /\ IsSome(arg.image)
  /\ Len(tag0.pictures) = 2 /\ tag.pictures = << >>

(***************************************************************************)
(* C10  Single cover after cover-only writes: after one or more cover-only *)
(* replacements the tag holds exactly one cover-front picture, with the    *)
(* data and description of the most recent write and the MIME type that    *)
(* write stores (the sniffed kind, else its default).                      *)
(***************************************************************************)
C10_SingleCover ==
  CoverOnly =>
    LET c == Unwrap(cover)
        cs == Covers(tag.pictures)
        kind == infer_get(c.data)
    IN /\ Len(cs) = 1
       /\ cs[1].data = c.data
       /\ cs[1].description = c.description
       /\ cs[1].mime_type =
            Some(IF IsSome(kind) THEN MimeType_from_str(Unwrap(kind)) ELSE c.mime_type)

C10_Witness ==
  /\ pc = "cover" /\ nCover = 2
  /\ Len(Covers(tag0.pictures)) = 1 /\ Len(tag0.pictures) = 3
  /\ Covers(tag0.pictures)[1].data # Unwrap(cover).data
  /\ Len(Covers(tag.pictures)) = 1

\* the sniffed kinds that are images, and the MimeType of each
ImageKinds == {"image/jpeg", "image/png", "image/gif"}
SniffsAsImage(data) ==
  IsSome(infer_get(data)) /\ Unwrap(infer_get(data)) \in ImageKinds
SniffedMime(data) == MimeType_from_str(Unwrap(infer_get(data)))

(***************************************************************************)
(* C11  Content sniffing outranks the supplied MIME on every write: after  *)
(* to_tag wrote images, in cover-only or in full-replace mode, every       *)
(* stored picture that to_tag wrote and whose bytes the sniffer classifies *)
(* as image kind K has MIME type K, whatever Image.mime_type names.        *)
(***************************************************************************)
C11_SniffingOutranks ==
  /\ FullReplace =>
       \A i \in 1..Len(tag.pictures) :
         SniffsAsImage(tag.pictures[i].data) =>
           tag.pictures[i].mime_type = Some(SniffedMime(tag.pictures[i].data))
  /\ (CoverOnly /\ Wrote) =>
       \A i \in 1..Len(tag.pictures) :
         (IsCover(tag.pictures[i]) /\ SniffsAsImage(tag.pictures[i].data)) =>
           tag.pictures[i].mime_type = Some(SniffedMime(tag.pictures[i].data))

(***************************************************************************)
(* C12  MIME fallback of the cover-only replace: the stored cover has the  *)
(* sniffed kind when the sniffer yields an image kind for the bytes, and   *)
(* the caller's default (Image.mime_type parsed, JPEG when absent) when    *)
(* the sniffer yields nothing or a kind that is not an image.              *)
(***************************************************************************)
C12_MimeFallback ==
  CoverOnly =>
    \A i \in 1..Len(tag.pictures) :
      IsCover(tag.pictures[i]) =>
        tag.pictures[i].mime_type =
          Some(IF SniffsAsImage(Unwrap(cover).data)
               THEN SniffedMime(Unwrap(cover).data)
               ELSE Unwrap(cover).mime_type)

\* a Position field read from the tag's number and total accessors
PositionRead(position, t, no_key, of_key) ==
  LET no == get_u32_from_string(t, no_key)
      of == get_u32_from_string(t, of_key)
  IN /\ position = None <=> (no = None /\ of = None)
     /\ IsSome(position) =>
          (Unwrap(position).no = no /\ Unwrap(position).of = of)

(***************************************************************************)
(* C13  Position presence: the track that from_tag returns is None exactly *)
(* when the track-number and the track-total accessors are both absent,    *)
(* and otherwise a Position carrying the value of each accessor; the same  *)
(* for disc with the disc accessors, in src/util.rs and in src/lib.rs.     *)
(***************************************************************************)
C13_PositionPresence ==
  /\ IsSome(out) =>
       /\ PositionRead(Unwrap(out).track, tag, "TrackNumber", "TrackTotal")
       /\ PositionRead(Unwrap(out).disc, tag, "DiscNumber", "DiscTotal")
  /\ (IsSome(libOut) /\ ~Unwrap(libOut).panicked) =>
       /\ PositionRead(Unwrap(Unwrap(libOut).val).track, tag,
                       "TrackNumber", "TrackTotal")
       /\ PositionRead(Unwrap(Unwrap(libOut).val).disc, tag,
                       "DiscNumber", "DiscTotal")

\* a read that finds only the total of the track and only the number of
\* the disc, made by both from_tag
C13_Witness ==
  /\ IsSome(out) /\ IsSome(libOut) /\ pc = "start"
  /\ ~Unwrap(libOut).panicked
  /\ Unwrap(out).track = Some([no |-> None, of |-> Some(3)])
  /\ Unwrap(out).disc = Some([no |-> Some(1), of |-> None])
  /\ Unwrap(Unwrap(libOut).val).track = Unwrap(out).track

\* what a write leaves under the key of one Position member: the member's
\* number as the only item when the member is present, the earlier items
\* when it is None
MemberWritten(member, key) ==
  IF IsSome(member)
  THEN ItemsUnder(tag, {key}) = <<TagItem(key, Text(u32_to_string(Unwrap(member))))>>
  ELSE ItemsUnder(tag, {key}) = ItemsUnder(tag0, {key})

\* a Position with a number and no total, written over a total, reads back
\* with the number written and the total the tag had
NumberOverTotal(position, back, of_key) ==
  (IsSome(position) /\ IsSome(Unwrap(position).no) /\ Unwrap(position).of = None
     /\ IsSome(get_u32_from_string(tag0, of_key))) =>
    back = Some([no |-> Unwrap(position).no,
                 of |-> get_u32_from_string(tag0, of_key)])

(***************************************************************************)
(* C14  Position members are written independently: for a present track    *)
(* or disc, to_tag replaces the number item only if no is present and the  *)
(* total item only if of is present; the item of a None member stays as it *)
(* was, so {no: Some(n), of: None} written over a total T reads back as    *)
(* {no: n, of: T}.                                                         *)
(***************************************************************************)
C14_MembersIndependent ==
  /\ (Wrote /\ IsSome(arg.track)) =>
       /\ MemberWritten(Unwrap(arg.track).no, "TrackNumber")
       /\ MemberWritten(Unwrap(arg.track).of, "TrackTotal")
  /\ (Wrote /\ IsSome(arg.disc)) =>
       /\ MemberWritten(Unwrap(arg.disc).no, "DiscNumber")
       /\ MemberWritten(Unwrap(arg.disc).of, "DiscTotal")
  /\ (Wrote /\ IsSome(out)) =>
       /\ NumberOverTotal(arg.track, Unwrap(out).track, "TrackTotal")
       /\ NumberOverTotal(arg.disc, Unwrap(out).disc, "DiscTotal")

\* a track number written without a total over a tag that has a total and
\* another number, then read back
C14_Witness ==
  /\ pc = "written" /\ IsSome(out) /\ IsSome(arg.track)
  /\ IsSome(Unwrap(arg.track).no) /\ Unwrap(arg.track).of = None
  /\ IsSome(get_u32_from_string(tag0, "TrackTotal"))
  /\ get_u32_from_string(tag0, "TrackNumber") # Unwrap(arg.track).no
  /\ Unwrap(out).track = Some([no |-> Unwrap(arg.track).no,
                               of |-> get_u32_from_string(tag0, "TrackTotal")])

(***************************************************************************)
(* C15  Artists write both items: for every non-empty artists list, a list *)
(* of one element included, after to_tag (of src/util.rs and of            *)
(* src/lib.rs) the tag holds exactly one singular artist item equal to the *)
(* first element and exactly one multi-value artists item equal to all the *)
(* elements joined with ", ", and no earlier artist item.                  *)
(***************************************************************************)
C15_ArtistsBothItems ==
  ((Wrote \/ pc = "lib_written") /\ IsSome(arg.artists)
     /\ Unwrap(arg.artists) # << >>) =>
    /\ ItemsUnder(tag, {"TrackArtist"}) =
         <<TagItem("TrackArtist", Text(Unwrap(arg.artists)[1]))>>
    /\ ItemsUnder(tag, {"TrackArtists"}) =
         <<TagItem("TrackArtists", Text(join(Unwrap(arg.artists), CommaSpace)))>>

ArtistKeys == {"TrackArtist", "TrackArtists"}

(***************************************************************************)
(* C16  Present-but-empty lists are a no-op: when artists is Some([]),     *)
(* to_tag neither removes nor inserts an artist item, so the tag's artist  *)
(* items are exactly as before the call; likewise album_artists = Some([]) *)
(* and the album-artist items.                                             *)
(***************************************************************************)
C16_EmptyListNoOp ==
  /\ (Wrote /\ arg.artists = Some(<< >>)) =>
       ItemsUnder(tag, ArtistKeys) = ItemsUnder(tag0, ArtistKeys)
  /\ (Wrote /\ arg.album_artists = Some(<< >>)) =>
       ItemsUnder(tag, {"AlbumArtist"}) = ItemsUnder(tag0, {"AlbumArtist"})

\* Some([]) written, with other fields, over a tag that holds artist items
C16_Witness ==
  /\ pc = "written" /\ arg.artists = Some(<< >>) /\ IsSome(arg.title)
  /\ ItemsUnder(tag0, ArtistKeys) # << >>
  /\ ItemsUnder(tag, ArtistKeys) = ItemsUnder(tag0, ArtistKeys)
  /\ tag # tag0

(***************************************************************************)
(* C17  Artists fallback on read: for a tag without a multi-value artists  *)
(* item, from_tag returns as artists the one-element list holding the      *)
(* value of the singular artist accessor when that accessor is present,    *)
(* and the empty list, never None, when it is absent.                      *)
(***************************************************************************)
C17_ArtistsFallback ==
  (IsSome(out) /\ ItemsUnder(tag, {"TrackArtists"}) = << >>) =>
    Unwrap(out).artists =
      IF IsSome(get_string(tag, "TrackArtist"))
      THEN Some(<<Unwrap(get_string(tag, "TrackArtist"))>>)
      ELSE Some(<< >>)

(***************************************************************************)
(* C18  Taxonomy round trip: for every AudioImageType value x, the 20      *)
(* named cases and Other, from_picture_type(build_picture_type(x)) = x.    *)
(***************************************************************************)
C18_TaxonomyRoundTrip == IsSome(roleBack) => Unwrap(roleBack) = role

C18_Witness == role = "PublisherLogo" /\ roleBack = Some("PublisherLogo")

(***************************************************************************)
(* C19  Lossy taxonomy mapping: from_picture_type is total; each of the 20 *)
(* recognized external roles maps to the AudioImageType case of the same   *)
(* name, never to Other, and converts back to the same external role;      *)
(* every other external role maps to Other.                                *)
(***************************************************************************)
C19_LossyMapping ==
  /\ Cardinality(NamedRoles) = 20
  /\ IsSome(extBack) =>
       LET back == Unwrap(extBack)
       IN /\ back.internal \in AudioImageType
          /\ ext \in NamedRoles =>
               (back.internal = ext /\ back.internal # "Other" /\ back.external = ext)
          /\ ext \notin NamedRoles => back.internal = "Other"

\* an external role outside the 20, converted in and back out
C19_Witness ==
  /\ ext = "Undefined"
  /\ extBack = Some([internal |-> "Other", external |-> "Other"])

AudioTagsFields ==
  {"title", "artists", "album", "year", "genre", "track", "album_artists",
   "comment", "disc", "image", "all_images"}

\* the read reached the primary tag of the file and found none
ProbedWithoutTag ==
  /\ IsSome(res)
  /\ file.content = "audio" /\ file.primary = None
  /\ Unwrap(res).op = "read_tags" => file.openable

(***************************************************************************)
(* C20  No primary tag reads as the default: when the probed file or       *)
(* buffer has no primary tag, read_tags and read_tags_from_buffer succeed  *)
(* and return an AudioTags in which every one of the eleven fields is      *)
(* absent.                                                                 *)
(***************************************************************************)
C20_NoTagReadsDefault ==
  ProbedWithoutTag =>
    LET result == Unwrap(res).result
    IN /\ result.ok
       /\ IsSome(result.val)
       /\ DOMAIN Unwrap(result.val) = AudioTagsFields
       /\ \A f \in AudioTagsFields : Unwrap(result.val)[f] = None

C20_Witness ==
  /\ ProbedWithoutTag
  /\ Unwrap(res).op = "read_tags"
  /\ Unwrap(res).result.ok
  /\ Unwrap(Unwrap(res).result.val).artists = None

\* a read of the tags was made after a clear operation that succeeded
ReadAfterClear ==
  /\ IsSome(lastWrite) /\ IsSome(lastRead)
  /\ Unwrap(lastWrite).op \in {"clear_tags", "clear_tags_to_buffer"}
  /\ Unwrap(lastWrite).result.ok
  /\ Unwrap(lastRead).op \in {"read_tags", "read_tags_from_buffer"}

ClearedFields ==
  {"title", "artists", "album", "year", "genre", "track", "album_artists",
   "comment", "disc", "image"}

(***************************************************************************)
(* C21  Clear then read: after clear_tags or clear_tags_to_buffer          *)
(* succeeded on a target, a following read of the same target succeeds and *)
(* returns title, artists, album, year, genre, track, album_artists,       *)
(* comment, disc and image all None, whatever tags and cover the target    *)
(* held before.                                                            *)
(***************************************************************************)
C21_ClearThenRead ==
  ReadAfterClear =>
    /\ Unwrap(lastRead).result.ok
    /\ \A f \in ClearedFields : Unwrap(Unwrap(lastRead).result.val)[f] = None

\* tags and a cover were written to a file, then cleared, then read
C21_Witness ==
  /\ ReadAfterClear /\ nOps = 2 /\ target.kind = "file"
  /\ IsSome(target0.primary)
  /\ get_string(Unwrap(target0.primary), "TrackTitle") = Some(StrB)
  /\ HasCover(Unwrap(target0.primary).pictures)
  /\ Unwrap(lastRead).result.ok
  /\ Unwrap(Unwrap(lastRead).result.val).image = None

FileWriteOps == {"write_tags", "clear_tags", "write_cover_image_to_file"}

(***************************************************************************)
(* C22  Failed write leaves the destination untouched: whenever            *)
(* write_tags, clear_tags or write_cover_image_to_file returns an error,   *)
(* from the open, the format detection, the parse or the save, the         *)
(* content of the destination file is what it was before the call.         *)
(***************************************************************************)
C22_FailedWriteUntouched ==
  (IsSome(lastWrite) /\ Unwrap(lastWrite).op \in FileWriteOps
     /\ ~Unwrap(lastWrite).result.ok) =>
    Bytes(target) = Bytes(target0)

\* the message holds the fragment s
Reports(err, s) == \E i \in 1..Len(err) : err[i] = s

\* the first stage of an operation that fails on target t, "none" when
\* only the save can fail
OpenFails(op, t) ==
  /\ t.kind = "file"
  /\ ~t.openable \/ (op \in {"write_tags", "clear_tags"} /\ ~t.writable)
FirstFailure(op, t) ==
  IF OpenFails(op, t) THEN "open"
  ELSE IF t.content = "guess_fails" THEN "detect"
  ELSE IF t.content = "read_fails" THEN "parse"
  ELSE "none"

SaveMessages ==
  {"Failed to write audio to buffer: ", "Failed to write audio file: ",
   "Failed to write file: "}
CoverFileOps == {"write_cover_image_to_file", "read_cover_image_from_file"}

\* an operation on target t that left it as t1 reported its first failing
\* stage, with open_message(op) as the message of a failed open
StageReported(rec, t, t1, open_message(_)) ==
  LET stage == FirstFailure(rec.op, t)
      r == rec.result
  IN /\ stage = "open" => (~r.ok /\ Reports(r.err, open_message(rec.op)))
     /\ stage = "detect" => (~r.ok /\ Reports(r.err, "Failed to guess file type"))
     /\ stage = "parse" => (~r.ok /\ Reports(r.err, "Failed to read audio file"))
     /\ stage # "none" => (r.val = None /\ Bytes(t1) = Bytes(t))
     /\ (stage = "none" /\ ~r.ok) => \E m \in SaveMessages : Reports(r.err, m)

AllStagesReported(open_message(_)) ==
  /\ IsSome(lastWrite) =>
       StageReported(Unwrap(lastWrite), target0, target, open_message)
  /\ IsSome(lastRead) =>
       /\ StageReported(Unwrap(lastRead), target, target, open_message)
       /\ FirstFailure(Unwrap(lastRead).op, target) = "none" =>
            Unwrap(lastRead).result.ok

OpenMessageClaimed(op) == "Failed to open file: "
OpenMessage(op) ==
  IF op \in CoverFileOps THEN "Failed to read file: " ELSE "Failed to open file: "

StoredCover(t) ==
  IF HasCover(t.pictures) THEN Some(Covers(t.pictures)[1]) ELSE None

(***************************************************************************)
(* C24  from_tag of src/lib.rs is total on cover pictures: for every tag,  *)
(* one whose cover-front picture has no stored MIME type included,         *)
(* from_tag returns an AudioTags, whose image.mime_type is derived from    *)
(* the stored MIME type when there is one and is None when there is none.  *)
(***************************************************************************)
C24_LibFromTagTotal ==
  IsSome(libOut) =>
    /\ ~Unwrap(libOut).panicked
    /\ IsSome(Unwrap(libOut).val)
    /\ LET image == Unwrap(Unwrap(libOut).val).image
           stored == StoredCover(tag)
       IN /\ IsSome(image) <=> IsSome(stored)
          /\ (IsSome(stored) /\ Unwrap(stored).mime_type = None) =>
               Unwrap(image).mime_type = None
          /\ (IsSome(stored) /\ IsSome(Unwrap(stored).mime_type)
                /\ Unwrap(Unwrap(stored).mime_type).kind # "Unknown") =>
               Unwrap(image).mime_type =
                 Some(MimeType_to_string(Unwrap(Unwrap(stored).mime_type)))

\* the default MIME type that to_tag hands to add_cover_image
DefaultMime(image) ==
  IF IsSome(image.mime_type) THEN MimeType_from_str(Unwrap(image.mime_type))
  ELSE Mime("Jpeg")

(***************************************************************************)
(* C25  The cover write of src/lib.rs never aborts: for every image byte   *)
(* sequence, bytes the sniffer cannot classify included, to_tag with an    *)
(* image completes, and for bytes that are not of a recognized image kind  *)
(* the cover is stored with the caller's default MIME type (Image.mime_type*)
(* parsed, or JPEG); no to_tag is left half applied.                       *)
(***************************************************************************)
C25_LibCoverWriteCompletes ==
  /\ pc # "lib_panicked"
  /\ (pc = "lib_written" /\ IsSome(arg.image)
        /\ ~SniffsAsImage(Unwrap(arg.image).data)) =>
       /\ HasCover(tag.pictures)
       /\ Covers(tag.pictures)[1].data = Unwrap(arg.image).data
       /\ Covers(tag.pictures)[1].mime_type = Some(DefaultMime(Unwrap(arg.image)))

(***************************************************************************)
(* C26  The cover-only replace of src/lib.rs keeps the other pictures:     *)
(* after add_cover_image every picture that had a role other than          *)
(* cover-front before the call is still in the tag, unchanged and in its   *)
(* relative order, and the new cover-front picture is at index 0.          *)
(***************************************************************************)
C26_LibCoverKeepsOthers ==
  (pc = "lib_written" /\ IsSome(arg.image)) =>
    /\ NonCovers(tag.pictures) = NonCovers(tag0.pictures)
    /\ tag.pictures # << >>
    /\ IsCover(tag.pictures[1])
    /\ tag.pictures[1].data = Unwrap(arg.image).data

(***************************************************************************)
(* C27  Read-modify-write is a semantic identity: for every tag t, with    *)
(* a = from_tag(t), after a.to_tag(t) a second from_tag(t) returns an      *)
(* AudioTags equal to a in every field: scalars, positions, artist lists,  *)
(* image, and all_images with its order, roles, MIME strings and           *)
(* descriptions.                                                           *)
(***************************************************************************)
C27_ReadModifyWriteIdentity ==
  (pc = "written_back" /\ IsSome(out)) => Unwrap(out) = arg

\* a tag with foreign items, a picture without MIME type and a cover-front
\* picture behind another picture was read, written back (which rewrote the
\* tag) and read again
C27_Witness ==
  /\ pc = "written_back"
  /\ IsSome(out)
  /\ tag # tag0
  /\ tag0.items = ItemsForeign
  /\ Len(tag0.pictures) >= 2
  /\ ~IsCover(tag0.pictures[1])
  /\ HasCover(tag0.pictures)
  /\ \E i \in 1..Len(tag0.pictures) : tag0.pictures[i].mime_type = None
  /\ IsSome(arg.track) /\ IsSome(arg.year) /\ IsSome(arg.all_images)

\* how many times x occurs in a sequence
Occurrences(seq, x) == Cardinality({i \in 1..Len(seq) : seq[i] = x})

\* all_images of the AudioTags read last, the empty list when it is None
ImagesRead ==
  IF IsSome(out) /\ IsSome(Unwrap(out).all_images)
  THEN Unwrap(Unwrap(out).all_images) ELSE << >>

(***************************************************************************)
(* C28  Stable ordering on read: all_images returned by from_tag is a      *)
(* permutation of the tag's pictures (same length, nothing dropped or      *)
(* duplicated) in which the cover-front pictures come first and the        *)
(* pictures of every other role keep their source relative order; with no  *)
(* cover-front picture the order is the source order.                      *)
(***************************************************************************)
C28_StableReadOrder ==
  IsSome(out) =>
    LET source == MapSeq(tag.pictures, from_picture)
    IN /\ Len(ImagesRead) = Len(source)
       /\ \A i \in 1..Len(source) :
            Occurrences(ImagesRead, source[i]) = Occurrences(source, source[i])
       /\ \A i, j \in 1..Len(ImagesRead) :
            (i < j /\ IsCover(ImagesRead[j])) => IsCover(ImagesRead[i])
       /\ NonCovers(ImagesRead) = NonCovers(source)
       /\ ~HasCover(source) => ImagesRead = source

\* a tag whose cover-front picture sits between two pictures of different
\* other roles was read
C28_Witness ==
  /\ IsSome(out)
  /\ Len(tag.pictures) = 3
  /\ ~IsCover(tag.pictures[1])
  /\ IsCover(tag.pictures[2])
  /\ ~IsCover(tag.pictures[3])
  /\ tag.pictures[1].pic_type # tag.pictures[3].pic_type
  /\ tag.pictures[3].pic_type = "CoverBack"
  /\ Len(ImagesRead) = 3

(***************************************************************************)
(* C30  Cover-only mode ignores the supplied role: when all_images is None *)
(* and image is present, to_tag stores the image as a cover-front picture  *)
(* whatever Image.pic_type is, so the following from_tag returns image =   *)
(* Some with pic_type cover-front and the written bytes and description.   *)
(***************************************************************************)
C30_CoverOnlyIgnoresRole ==
  (Wrote /\ arg.all_images = None /\ IsSome(arg.image) /\ IsSome(out)) =>
    /\ IsSome(Unwrap(out).image)
    /\ Unwrap(Unwrap(out).image).pic_type = "CoverFront"
    /\ Unwrap(Unwrap(out).image).data = Unwrap(arg.image).data
    /\ Unwrap(Unwrap(out).image).description = Unwrap(arg.image).description

\* an image supplied with a role other than cover-front was written in
\* cover-only mode to a tag that had pictures, and the tag was read
C30_Witness ==
  /\ pc = "written"
  /\ arg.all_images = None
  /\ IsSome(arg.image)
  /\ Unwrap(arg.image).pic_type # "CoverFront"
  /\ tag0.pictures # << >>
  /\ IsSome(out)
  /\ IsSome(Unwrap(out).image)

\* both operations on the shared file have returned
BothDone == \A o \in Operations : running.at[o] = "done"

\* the AudioTags a read of the shared file returns
SharedRead ==
  IF target.primary = None THEN AudioTags_default
  ELSE from_tag(Unwrap(target.primary))

\* the text fields write_tags was given are in the file
TagsChangePresent ==
  \A f \in {"title", "album", "year", "comment"} :
    IsSome(running.tags[f]) => SharedRead[f] = running.tags[f]

\* the cover write_cover_image_to_file was given is in the file
CoverChangePresent ==
  /\ IsSome(SharedRead.image)
  /\ Unwrap(SharedRead.image).data = running.image_data

(***************************************************************************)
(* C29  Lost update without external serialization: write_tags and         *)
(* write_cover_image_to_file read the file, change the tag in memory and   *)
(* write the file back without a lock, so two of them on one file can      *)
(* interleave and leave only one operation's change in the file; when each *)
(* read-modify-write runs as one unit, the changes of both, made to        *)
(* different fields, are in the file at the end.                           *)
(***************************************************************************)
C29_SerializedKeepsBoth ==
  (BothDone /\ ~running.overlapped) => (TagsChangePresent /\ CoverChangePresent)

\* the lost update: both operations returned Ok after they overlapped, and
\* the file holds the change of only one of them
C29_Witness ==
  /\ BothDone
  /\ running.overlapped
  /\ IsSome(lastWrite) /\ Unwrap(lastWrite).result.ok
  /\ TagsChangePresent # CoverChangePresent

====
